---------------------------- MODULE Spec2Model ----------------------------
(***************************************************************************)
(* Budget & fund ledger engine of finance_api (crud/budget, crud/transaction).*)
(*                                                                         *)
(* The relational store is the state: one variable per table.  Money is    *)
(* counted in cents (integers); a nullable numeric column is a sequence of *)
(* length 0 (NULL) or 1; a nullable budget_id is 0 for NULL (ids start at  *)
(* 1).  A timestamp is a tick count: every calendar month spans            *)
(* TicksPerMonth ticks, from its first instant to its last instant.        *)
(***************************************************************************)
EXTENDS Integers, Sequences, FiniteSets, TLC

VARIABLES
    budget,             \* table budget: id -> row
    income,             \* table income: budget id -> row
    expense,            \* table expense: budget id -> row
    fund,               \* table fund: budget id -> row
    fund_masters,       \* table fund_masters: id -> row
    next_master_id,     \* autoincrement of fund_masters.id
    txn,                \* table simplefin_transaction: id -> row
    line_item,          \* table transaction_line_item: id -> row
    next_line_item_id,  \* autoincrement of transaction_line_item.id
    runs,               \* number of allocation runs served so far
    sessions,           \* database session id -> the request it is serving
    last                \* the last request served: its inputs and its response

vars == <<budget, income, expense, fund, fund_masters, next_master_id,
          txn, line_item, next_line_item_id, runs, sessions, last>>

\* the database sessions a server keeps open at once, and none of them in use
Sessions == {1, 2}
NoSessions == [p \in Sessions |-> [op |-> "idle"]]

tables == <<budget, income, expense, fund, fund_masters, next_master_id,
            txn, line_item, next_line_item_id>>

-----------------------------------------------------------------------------
(* Bounds of the model *)

TicksPerMonth == 2
MaxLineItems == 2
MaxRuns == 2
MaxBudgets == 4

-----------------------------------------------------------------------------
(* The committed store, as one value *)

Store ==
    [budget |-> budget, income |-> income, expense |-> expense, fund |-> fund,
     fund_masters |-> fund_masters, txn |-> txn, line_item |-> line_item]

EmptyTable == <<>>

\* dict.get(key, default)
DictGet(d, k, default) == IF k \in DOMAIN d THEN d[k] ELSE default

\* a table with the row of `id` added or overwritten
Put(table, id, row) ==
    [i \in DOMAIN table \cup {id} |-> IF i = id THEN row ELSE table[i]]

\* a table without the row of `id`
Remove(table, id) == [i \in DOMAIN table \ {id} |-> table[i]]

\* SQL func.sum over the selected rows, `or 0.0` when there is none
RECURSIVE SumOver(_, _)
SumOver(ids, amount) ==
    IF ids = {} THEN 0
    ELSE LET i == CHOOSE j \in ids : TRUE
         IN  amount[i] + SumOver(ids \ {i}, amount)

\* datetime(year, month, 1, tzinfo=UTC)
MonthStart(year, month) == ((year * 12) + (month - 1)) * TicksPerMonth

\* datetime(year, month, last_day, 23, 59, 59, 999999, tzinfo=UTC)
MonthEnd(year, month) == MonthStart(year, month) + (TicksPerMonth - 1)

-----------------------------------------------------------------------------
(* crud/budget/calculations_budget.py *)

get_budget_sum_with_line_items_unfiltered(s, budget_id) ==
    LET unsplit == {t \in DOMAIN s.txn : s.txn[t].budget_id = budget_id}
        items   == {l \in DOMAIN s.line_item : s.line_item[l].budget_id = budget_id}
    IN  SumOver(unsplit, [t \in DOMAIN s.txn |-> s.txn[t].amount])
        + SumOver(items, [l \in DOMAIN s.line_item |-> s.line_item[l].amount])

get_budget_sum_with_line_items(s, budget_id) ==
    LET unsplit == {t \in DOMAIN s.txn :
                        /\ s.txn[t].budget_id = budget_id
                        /\ ~s.txn[t].is_split}
        unsplit_sum == SumOver(unsplit, [t \in DOMAIN s.txn |-> s.txn[t].amount])
        items   == {l \in DOMAIN s.line_item : s.line_item[l].budget_id = budget_id}
        split_sum == SumOver(items, [l \in DOMAIN s.line_item |-> s.line_item[l].amount])
    IN  unsplit_sum + split_sum

\* the unsplit transactions of a budget dated within [from, to]
UnsplitInRange(s, budget_id, from, to) ==
    {t \in DOMAIN s.txn :
        /\ s.txn[t].budget_id = budget_id
        /\ ~s.txn[t].is_split
        /\ s.txn[t].transacted_at >= from
        /\ s.txn[t].transacted_at <= to}

\* the line items of a budget whose parent transaction is dated within [from, to]
ItemsInRange(s, budget_id, from, to) ==
    {l \in DOMAIN s.line_item :
        /\ s.line_item[l].budget_id = budget_id
        /\ s.line_item[l].parent_transaction_id \in DOMAIN s.txn
        /\ s.txn[s.line_item[l].parent_transaction_id].transacted_at >= from
        /\ s.txn[s.line_item[l].parent_transaction_id].transacted_at <= to}

get_all_budget_sums_with_line_items_nofilter(s, month, year) ==
    LET month_start == MonthStart(year, month)
        month_end   == MonthEnd(year, month)
        dated(t)    == /\ s.txn[t].transacted_at >= month_start
                       /\ s.txn[t].transacted_at <= month_end
        unsplit_ids == {s.txn[t].budget_id :
                            t \in {u \in DOMAIN s.txn :
                                      s.txn[u].budget_id # 0 /\ dated(u)}}
        split_ids   == {s.line_item[l].budget_id :
                            l \in {k \in DOMAIN s.line_item :
                                      /\ s.line_item[k].budget_id # 0
                                      /\ dated(s.line_item[k].parent_transaction_id)}}
    IN  [b \in unsplit_ids \cup split_ids |->
            SumOver({t \in DOMAIN s.txn : s.txn[t].budget_id = b /\ dated(t)},
                    [t \in DOMAIN s.txn |-> s.txn[t].amount])
            + SumOver(ItemsInRange(s, b, month_start, month_end),
                      [l \in DOMAIN s.line_item |-> s.line_item[l].amount])]

get_all_budget_sums_with_line_items(s, month, year) ==
    LET month_start == MonthStart(year, month)
        month_end   == MonthEnd(year, month)
        \* group_by budget_id of the two queries
        unsplit_ids == {s.txn[t].budget_id :
                            t \in {u \in DOMAIN s.txn :
                                      /\ s.txn[u].budget_id # 0
                                      /\ ~s.txn[u].is_split
                                      /\ s.txn[u].transacted_at >= month_start
                                      /\ s.txn[u].transacted_at <= month_end}}
        split_ids   == {s.line_item[l].budget_id :
                            l \in {k \in DOMAIN s.line_item :
                                      /\ s.line_item[k].budget_id # 0
                                      /\ k \in ItemsInRange(s, s.line_item[k].budget_id,
                                                            month_start, month_end)}}
        unsplit_sums == [b \in unsplit_ids |->
                            SumOver(UnsplitInRange(s, b, month_start, month_end),
                                    [t \in DOMAIN s.txn |-> s.txn[t].amount])]
        split_sums   == [b \in split_ids |->
                            SumOver(ItemsInRange(s, b, month_start, month_end),
                                    [l \in DOMAIN s.line_item |-> s.line_item[l].amount])]
    IN  [b \in unsplit_ids \cup split_ids |->
            DictGet(unsplit_sums, b, 0) + DictGet(split_sums, b, 0)]

get_carryover_for_budgets_inclusive(s, user_id, month, year) ==
    LET current == {b \in DOMAIN s.budget :
                        /\ s.budget[b].user_id = user_id
                        /\ s.budget[b].month = month
                        /\ s.budget[b].year = year}
        budget_names == {s.budget[b].name : b \in current}
        previous == {b \in DOMAIN s.budget :
                        /\ s.budget[b].user_id = user_id
                        /\ s.budget[b].name \in budget_names
                        /\ MonthStart(s.budget[b].year, s.budget[b].month)
                             <= MonthStart(year, month)}
        contribution ==
            [b \in previous |->
                IF b \in DOMAIN s.fund
                THEN 0 - s.fund[b].month_amount
                ELSE LET from == MonthStart(s.budget[b].year, s.budget[b].month)
                         to   == MonthEnd(s.budget[b].year, s.budget[b].month)
                     IN  SumOver(UnsplitInRange(s, b, from, to),
                                 [t \in DOMAIN s.txn |-> s.txn[t].amount])
                         + SumOver(ItemsInRange(s, b, from, to),
                                   [l \in DOMAIN s.line_item |-> s.line_item[l].amount])]
    IN  IF current = {} THEN EmptyTable
        ELSE [n \in budget_names |->
                SumOver({b \in previous : s.budget[b].name = n}, contribution)]

get_carryover_for_budgets(s, user_id, month, year) ==
    LET current == {b \in DOMAIN s.budget :
                        /\ s.budget[b].user_id = user_id
                        /\ s.budget[b].month = month
                        /\ s.budget[b].year = year}
        budget_names == {s.budget[b].name : b \in current}
        current_month_start == MonthStart(year, month)
        previous_budgets ==
            {b \in DOMAIN s.budget :
                /\ s.budget[b].user_id = user_id
                /\ s.budget[b].name \in budget_names
                /\ MonthStart(s.budget[b].year, s.budget[b].month) < current_month_start}
        contribution ==
            [b \in previous_budgets |->
                LET prev_month_start == MonthStart(s.budget[b].year, s.budget[b].month)
                    prev_month_end   == MonthEnd(s.budget[b].year, s.budget[b].month)
                    unsplit_sum ==
                        SumOver(UnsplitInRange(s, b, prev_month_start, prev_month_end),
                                [t \in DOMAIN s.txn |-> s.txn[t].amount])
                    split_sum ==
                        SumOver(ItemsInRange(s, b, prev_month_start, prev_month_end),
                                [l \in DOMAIN s.line_item |-> s.line_item[l].amount])
                    transaction_sum == unsplit_sum + split_sum
                IN  IF b \in DOMAIN s.fund
                    THEN 0 - s.fund[b].month_amount
                    ELSE transaction_sum]
    IN  IF current = {} THEN EmptyTable
        ELSE IF previous_budgets = {} THEN [n \in budget_names |-> 0]
        ELSE [n \in budget_names |->
                SumOver({b \in previous_budgets : s.budget[b].name = n}, contribution)]

-----------------------------------------------------------------------------
(* crud/budget/calculations_fund.py *)

calculate_master_balance_stored(s, master_fund_id) ==
    IF master_fund_id \in DOMAIN s.fund_masters
    THEN s.fund_masters[master_fund_id].total_amount
    ELSE 0

calculate_master_balance_month_filtered(s, master_fund_id) ==
    LET funds == {f \in DOMAIN s.fund : s.fund[f].master_fund_id = master_fund_id}
    IN  SumOver(funds,
                [f \in DOMAIN s.fund |->
                    s.fund[f].month_amount
                    + DictGet(get_all_budget_sums_with_line_items(
                                  s, s.budget[f].month, s.budget[f].year), f, 0)])

calculate_master_balance(s, master_fund_id) ==
    LET funds == {f \in DOMAIN s.fund : s.fund[f].master_fund_id = master_fund_id}
    IN  SumOver(funds,
                [f \in DOMAIN s.fund |->
                    s.fund[f].month_amount + get_budget_sum_with_line_items(s, f)])

-----------------------------------------------------------------------------
(* crud/transaction/assignment.py, crud/transaction/breakdown.py *)

\* Transaction line item validation tolerance: 0.01, one cent
LINE_ITEM_AMOUNT_TOLERANCE == 1

Abs(x) == IF x < 0 THEN 0 - x ELSE x

RECURSIVE SumSeq(_)
SumSeq(items) ==
    IF items = <<>> THEN 0 ELSE Head(items).amount + SumSeq(Tail(items))

\* the incremental patch the function once made: the month_amount of a fund
\* follows the transactions assigned to it
_update_fund_amount_for_transaction_patching(funds, budget_id, transaction_amount) ==
    IF budget_id \in DOMAIN funds
    THEN [funds EXCEPT ![budget_id].month_amount = @ + transaction_amount]
    ELSE funds

\* a no-op for funds and for every other budget: month_amount is never touched
_update_fund_amount_for_transaction(funds, budget_id, transaction_amount) == funds

assign_transaction_to_budget(transaction_id, budget_id) ==
    IF transaction_id \notin DOMAIN txn
    THEN /\ UNCHANGED <<tables, runs, sessions>>
         /\ last' = [op |-> "assign_transaction_to_budget", ok |-> FALSE,
                     error |-> "Transaction not found"]
    ELSE LET old_budget_id == txn[transaction_id].budget_id
             transaction_amount == txn[transaction_id].amount
             restored == IF old_budget_id # 0
                         THEN _update_fund_amount_for_transaction(
                                  fund, old_budget_id, 0 - transaction_amount)
                         ELSE fund
             reduced  == IF budget_id # 0
                         THEN _update_fund_amount_for_transaction(
                                  restored, budget_id, transaction_amount)
                         ELSE restored
         IN  /\ txn' = [txn EXCEPT ![transaction_id].budget_id = budget_id]
             /\ fund' = reduced
             /\ UNCHANGED <<budget, income, expense, fund_masters, next_master_id,
                            line_item, next_line_item_id, runs, sessions>>
             /\ last' = [op |-> "assign_transaction_to_budget", ok |-> TRUE,
                         transaction_id |-> transaction_id, budget_id |-> budget_id]

\* the rows inserted for the items of one breakdown, ids taken in order
NewLineItems(transaction_id, items, first_id) ==
    [l \in first_id .. (first_id + Len(items) - 1) |->
        [parent_transaction_id |-> transaction_id,
         amount |-> items[l - first_id + 1].amount,
         budget_id |-> items[l - first_id + 1].budget_id]]

create_transaction_breakdown_unchecked(transaction_id, items) ==
    IF transaction_id \notin DOMAIN txn
    THEN /\ UNCHANGED <<tables, runs, sessions>>
         /\ last' = [op |-> "create_transaction_breakdown", ok |-> FALSE,
                     transaction_id |-> transaction_id, items |-> items,
                     error |-> "Transaction not found"]
    ELSE LET new == NewLineItems(transaction_id, items, next_line_item_id)
         IN  /\ line_item' = [l \in DOMAIN line_item \cup DOMAIN new |->
                                 IF l \in DOMAIN new THEN new[l] ELSE line_item[l]]
             /\ next_line_item_id' = next_line_item_id + Len(items)
             /\ UNCHANGED <<budget, income, expense, fund, fund_masters,
                            next_master_id, txn, runs, sessions>>
             /\ last' = [op |-> "create_transaction_breakdown", ok |-> TRUE,
                         transaction_id |-> transaction_id, items |-> items]

\* abs(line_items_total - transaction.amount) > LINE_ITEM_AMOUNT_TOLERANCE on
\* Python floats (both amounts are Float columns / JSON floats).  Amounts are
\* kept in whole cents here, which fixes the outcome below and above one cent;
\* at a difference of exactly one cent the binary rounding of the operands
\* decides (abs(0.02 - 0.01) > 0.01 is False, abs(0.04 - 0.03) > 0.01 and
\* abs(0.09 - 0.1) > 0.01 are True), so both outcomes are possible.
exceeds_tolerance(line_items_total, amount) ==
    LET difference == Abs(line_items_total - amount)
    IN  IF difference > LINE_ITEM_AMOUNT_TOLERANCE THEN {TRUE}
        ELSE IF difference = LINE_ITEM_AMOUNT_TOLERANCE THEN BOOLEAN
        ELSE {FALSE}

create_transaction_breakdown(transaction_id, items) ==
    IF transaction_id \notin DOMAIN txn
    THEN /\ UNCHANGED <<tables, runs, sessions>>
         /\ last' = [op |-> "create_transaction_breakdown", ok |-> FALSE,
                     transaction_id |-> transaction_id, items |-> items,
                     error |-> "Transaction not found"]
    ELSE \E mismatch \in exceeds_tolerance(SumSeq(items), txn[transaction_id].amount) :
             IF mismatch
             THEN /\ UNCHANGED <<tables, runs, sessions>>
                  /\ last' = [op |-> "create_transaction_breakdown", ok |-> FALSE,
                              transaction_id |-> transaction_id, items |-> items,
                              error |-> "Line items total doesn't match"]
             ELSE LET new == NewLineItems(transaction_id, items, next_line_item_id)
                  IN  /\ line_item' =
                            [l \in DOMAIN line_item \cup DOMAIN new |->
                                IF l \in DOMAIN new THEN new[l] ELSE line_item[l]]
                      /\ next_line_item_id' = next_line_item_id + Len(items)
                      /\ txn' = [txn EXCEPT ![transaction_id].is_split = TRUE]
                      /\ UNCHANGED <<budget, income, expense, fund, fund_masters,
                                     next_master_id, runs, sessions>>
                      /\ last' = [op |-> "create_transaction_breakdown", ok |-> TRUE,
                                  transaction_id |-> transaction_id, items |-> items]

\* amount: <<>> for None, <<a>> otherwise; budget_id: 0 for None
update_line_item(line_item_id, amount, budget_id) ==
    IF line_item_id \notin DOMAIN line_item
    THEN /\ UNCHANGED <<tables, runs, sessions>>
         /\ last' = [op |-> "update_line_item", ok |-> FALSE,
                     error |-> "Line item not found"]
    ELSE LET old == line_item[line_item_id]
             new_amount == IF amount # <<>> THEN amount[1] ELSE old.amount
             new_budget_id == IF budget_id # 0 THEN budget_id ELSE old.budget_id
             funds ==
                IF budget_id # 0 /\ old.budget_id # new_budget_id
                THEN LET restored ==
                            IF old.budget_id # 0
                            THEN _update_fund_amount_for_transaction(
                                     fund, old.budget_id, 0 - old.amount)
                            ELSE fund
                     IN  _update_fund_amount_for_transaction(
                             restored, new_budget_id, new_amount)
                ELSE IF amount # <<>> /\ old.amount # new_amount /\ new_budget_id # 0
                THEN _update_fund_amount_for_transaction(
                         fund, new_budget_id, new_amount - old.amount)
                ELSE fund
         IN  /\ line_item' = [line_item EXCEPT ![line_item_id] =
                                 [old EXCEPT !.amount = new_amount,
                                             !.budget_id = new_budget_id]]
             /\ fund' = funds
             /\ UNCHANGED <<budget, income, expense, fund_masters, next_master_id,
                            txn, next_line_item_id, runs, sessions>>
             /\ last' = [op |-> "update_line_item", ok |-> TRUE,
                         line_item_id |-> line_item_id, amount |-> amount,
                         budget_id |-> budget_id]

delete_line_item(line_item_id) ==
    IF line_item_id \notin DOMAIN line_item
    THEN /\ UNCHANGED <<tables, runs, sessions>>
         /\ last' = [op |-> "delete_line_item", ok |-> FALSE,
                     error |-> "Line item not found"]
    ELSE /\ line_item' = Remove(line_item, line_item_id)
         /\ UNCHANGED <<budget, income, expense, fund, fund_masters, next_master_id,
                        txn, next_line_item_id, runs, sessions>>
         /\ last' = [op |-> "delete_line_item", ok |-> TRUE]

-----------------------------------------------------------------------------
(* Read-only requests: the response is recorded, the store is left alone *)

query_calculate_master_balance(master_fund_id) ==
    /\ UNCHANGED <<tables, runs, sessions>>
    /\ last' = [op |-> "calculate_master_balance",
                master_fund_id |-> master_fund_id,
                result |-> calculate_master_balance(Store, master_fund_id)]

query_get_budget_sum_with_line_items(budget_id) ==
    /\ UNCHANGED <<tables, runs, sessions>>
    /\ last' = [op |-> "get_budget_sum_with_line_items",
                budget_id |-> budget_id,
                result |-> get_budget_sum_with_line_items(Store, budget_id)]

query_get_all_budget_sums_with_line_items(month, year) ==
    /\ UNCHANGED <<tables, runs, sessions>>
    /\ last' = [op |-> "get_all_budget_sums_with_line_items",
                month |-> month, year |-> year,
                result |-> get_all_budget_sums_with_line_items(Store, month, year)]

query_get_carryover_for_budgets(user_id, month, year) ==
    /\ UNCHANGED <<tables, runs, sessions>>
    /\ last' = [op |-> "get_carryover_for_budgets",
                user_id |-> user_id, month |-> month, year |-> year,
                result |-> get_carryover_for_budgets(Store, user_id, month, year)]

-----------------------------------------------------------------------------
(* The months, users and rows the specifications draw from *)

\* December of one year, then January and February of the next
P1 == [month |-> 12, year |-> 1]
P2 == [month |-> 1, year |-> 2]
P3 == [month |-> 2, year |-> 2]
Periods == {P1, P2, P3}
Users == {1, 2}

BudgetRow(user_id, name, p, enable) ==
    [user_id |-> user_id, name |-> name, enable |-> enable, deleted |-> FALSE,
     month |-> p.month, year |-> p.year]

IncomeRow(fixed, expected_amount) ==
    [fixed |-> fixed, expected_amount |-> expected_amount, min |-> <<>>, max |-> <<>>]

ExpenseRow(fixed, flexible, expected_amount) ==
    [fixed |-> fixed, flexible |-> flexible, expected_amount |-> expected_amount,
     min |-> <<>>, max |-> <<>>]

FundRow(priority, increment, max, month_amount, master_fund_id) ==
    [priority |-> priority, increment |-> increment, max |-> max,
     month_amount |-> month_amount, master_fund_id |-> master_fund_id]

MasterRow(name, total_amount) ==
    [name |-> name, total_amount |-> total_amount]

TxnRow(amount, transacted_at) ==
    [amount |-> amount, transacted_at |-> transacted_at, is_split |-> FALSE,
     transaction_type |-> "None", exclude_from_budget |-> FALSE, budget_id |-> 0]

-----------------------------------------------------------------------------
(* SpecAgg: transaction assignment, breakdown and the aggregations over them *)

\* A store built by create_income, create_expense, create_fund, one run of
\* apply_fund_increments per user in month P1, copy of user 1's month P1 into
\* P2, and unlink of fund 5 (keep_amount 0) from master 2 into master 3.
InitAgg ==
    /\ budget = <<BudgetRow(1, "A", P1, TRUE), BudgetRow(1, "B", P1, TRUE),
                  BudgetRow(1, "A", P2, TRUE), BudgetRow(1, "B", P2, TRUE),
                  BudgetRow(2, "A", P1, TRUE), BudgetRow(1, "A", P3, TRUE)>>
    /\ income = (1 :> IncomeRow(TRUE, 10)) @@ (3 :> IncomeRow(TRUE, 10))
    /\ expense = (6 :> ExpenseRow(TRUE, FALSE, 5))
    /\ fund = (2 :> FundRow(1, 4, <<>>, 4, 1)) @@ (4 :> FundRow(1, 4, <<>>, 0, 1))
              @@ (5 :> FundRow(1, 2, <<>>, 2, 3))
    /\ fund_masters = (1 :> MasterRow("B", 4)) @@ (2 :> MasterRow("A", 2))
                      @@ (3 :> MasterRow("A", 0))
    /\ next_master_id = 4
    /\ txn = <<TxnRow(10, MonthEnd(P1.year, P1.month)),
               TxnRow(0 - 3, MonthStart(P2.year, P2.month))>>
    /\ line_item = EmptyTable
    /\ next_line_item_id = 1
    /\ runs = 0
    /\ sessions = NoSessions
    /\ last = [op |-> "init"]

AssignTargets == {0, 1, 2, 4}

\* breakdowns offered for a transaction of amount a: exact over two budgets,
\* one cent short (at the tolerance), two cents short (out of tolerance)
Breakdowns(a) ==
    { <<[amount |-> a - 4, budget_id |-> 1], [amount |-> 4, budget_id |-> 4]>>,
      <<[amount |-> a - 1, budget_id |-> 1]>>,
      <<[amount |-> a - 2, budget_id |-> 1]>> }

AssignTransaction ==
    \E t \in DOMAIN txn, b \in AssignTargets : assign_transaction_to_budget(t, b)

CreateBreakdown ==
    \E t \in DOMAIN txn : \E items \in Breakdowns(txn[t].amount) :
        /\ next_line_item_id + Len(items) - 1 <= MaxLineItems
        /\ create_transaction_breakdown(t, items)

UpdateLineItem ==
    \E l \in DOMAIN line_item :
        \/ update_line_item(l, <<>>, 2)
        \/ update_line_item(l, <<7>>, 0)

DeleteLineItem ==
    \E l \in 1 .. MaxLineItems : delete_line_item(l)

QueryMasterBalance ==
    \E m \in {1, 2} : query_calculate_master_balance(m)

QueryBudgetSum ==
    \E b \in AssignTargets \ {0} : query_get_budget_sum_with_line_items(b)

QueryAllBudgetSums ==
    \E p \in {P1, P2} : query_get_all_budget_sums_with_line_items(p.month, p.year)

QueryCarryover ==
    \E q \in {<<1, P2>>, <<1, P3>>, <<2, P1>>} :
        query_get_carryover_for_budgets(q[1], q[2].month, q[2].year)

NextAgg ==
    \/ AssignTransaction
    \/ CreateBreakdown
    \/ UpdateLineItem
    \/ DeleteLineItem
    \/ QueryMasterBalance
    \/ QueryBudgetSum
    \/ QueryAllBudgetSums
    \/ QueryCarryover

SpecAgg == InitAgg /\ [][NextAgg]_vars

-----------------------------------------------------------------------------
(* Properties of the aggregations (SpecAgg) *)

\* the calendar month a timestamp falls in, as months since year 0
MonthOfTick(tick) == tick \div TicksPerMonth
MonthIndex(year, month) == (year * 12) + (month - 1)

\* what one transaction contributes to one budget: its own amount when it is
\* not split and assigned to the budget, otherwise only its line items of
\* that budget
Contribution(t, b) ==
    IF txn[t].is_split
    THEN SumOver({l \in DOMAIN line_item :
                     /\ line_item[l].parent_transaction_id = t
                     /\ line_item[l].budget_id = b},
                 [l \in DOMAIN line_item |-> line_item[l].amount])
    ELSE IF txn[t].budget_id = b THEN txn[t].amount ELSE 0

LifetimeSum(b) ==
    SumOver(DOMAIN txn, [t \in DOMAIN txn |-> Contribution(t, b)])

MonthSum(b, year, month) ==
    SumOver({t \in DOMAIN txn :
                MonthOfTick(txn[t].transacted_at) = MonthIndex(year, month)},
            [t \in DOMAIN txn |-> Contribution(t, b)])

FundsOfMaster(m) == {f \in DOMAIN fund : fund[f].master_fund_id = m}

\* C1: calculate_master_balance(master) is the sum, over the Fund rows of the
\* master, of month_amount plus the lifetime sum of the transactions and line
\* items assigned to the row; it is 0 for a master without Fund rows.
C1_MasterBalanceFormula ==
    last.op = "calculate_master_balance" =>
        /\ last.result =
              SumOver(FundsOfMaster(last.master_fund_id),
                      [f \in DOMAIN fund |-> fund[f].month_amount + LifetimeSum(f)])
        /\ FundsOfMaster(last.master_fund_id) = {} => last.result = 0

\* a master with two Fund rows, one holding a transaction dated outside the
\* row's own month and one holding a line item
C1_Witness ==
    /\ last.op = "calculate_master_balance"
    /\ Cardinality(FundsOfMaster(last.master_fund_id)) = 2
    /\ \E t \in DOMAIN txn :
          /\ txn[t].budget_id \in FundsOfMaster(last.master_fund_id)
          /\ ~txn[t].is_split
          /\ MonthOfTick(txn[t].transacted_at)
                # MonthIndex(budget[txn[t].budget_id].year,
                             budget[txn[t].budget_id].month)
    /\ \E l \in DOMAIN line_item :
          line_item[l].budget_id \in FundsOfMaster(last.master_fund_id)
    /\ last.result # SumOver(FundsOfMaster(last.master_fund_id),
                             [f \in DOMAIN fund |-> fund[f].month_amount])

StrictlyEarlier(b, year, month) ==
    \/ budget[b].year < year
    \/ budget[b].year = year /\ budget[b].month < month

PriorRows(user_id, name, year, month) ==
    {b \in DOMAIN budget :
        /\ budget[b].user_id = user_id
        /\ budget[b].name = name
        /\ StrictlyEarlier(b, year, month)}

NamesOfMonth(user_id, year, month) ==
    {budget[b].name :
        b \in {c \in DOMAIN budget :
                  /\ budget[c].user_id = user_id
                  /\ budget[c].month = month
                  /\ budget[c].year = year}}

\* C6: get_carryover_for_budgets(user, M, Y) has one entry per budget name of
\* (M, Y): the sum over the user's same-named rows of strictly earlier months
\* of -month_amount for a Fund row, else of the row's own-month transaction
\* sum; 0 when there is no such row.
C6_CarryoverFormula ==
    last.op = "get_carryover_for_budgets" =>
        /\ DOMAIN last.result = NamesOfMonth(last.user_id, last.year, last.month)
        /\ \A n \in DOMAIN last.result :
              /\ last.result[n] =
                    SumOver(PriorRows(last.user_id, n, last.year, last.month),
                            [b \in DOMAIN budget |->
                                IF b \in DOMAIN fund
                                THEN 0 - fund[b].month_amount
                                ELSE MonthSum(b, budget[b].year, budget[b].month)])
              /\ PriorRows(last.user_id, n, last.year, last.month) = {}
                    => last.result[n] = 0

\* user 1 in January: "A" carries the December transaction of row 1 but not
\* the January transaction assigned to it, "B" carries minus the allocation
\* of the December Fund row
C6_Witness ==
    /\ last.op = "get_carryover_for_budgets"
    /\ last.user_id = 1 /\ last.month = P2.month /\ last.year = P2.year
    /\ txn[1].budget_id = 1 /\ txn[2].budget_id = 1
    /\ ~txn[1].is_split /\ ~txn[2].is_split
    /\ last.result["A"] = txn[1].amount
    /\ last.result["B"] = 0 - fund[2].month_amount
    /\ fund[2].month_amount # 0

\* C7: in the month-filtered and in the lifetime aggregation a split
\* transaction contributes only through its line items, each to its own
\* budget, an unsplit one contributes its amount once to its budget, and the
\* month-filtered sum counts only what is dated within the month.
C7_SplitNeverCounted ==
    /\ last.op = "get_all_budget_sums_with_line_items" =>
          \A b \in DOMAIN budget :
              DictGet(last.result, b, 0) = MonthSum(b, last.year, last.month)
    /\ last.op = "get_budget_sum_with_line_items" =>
          last.result = LifetimeSum(last.budget_id)

\* a split transaction that still carries a budget_id of its own, with line
\* items in two other budgets, seen by the month-filtered aggregation
C7_Witness ==
    /\ last.op = "get_all_budget_sums_with_line_items"
    /\ \E t \in DOMAIN txn :
          /\ txn[t].is_split
          /\ txn[t].budget_id # 0
          /\ MonthOfTick(txn[t].transacted_at) = MonthIndex(last.year, last.month)
          /\ txn[t].budget_id \notin DOMAIN last.result
          /\ \E k, l \in DOMAIN line_item :
                /\ line_item[k].parent_transaction_id = t
                /\ line_item[l].parent_transaction_id = t
                /\ line_item[k].budget_id # line_item[l].budget_id
                /\ {line_item[k].budget_id, line_item[l].budget_id}
                      \subseteq DOMAIN last.result

-----------------------------------------------------------------------------
(* crud/budget/base.py, income.py, expense.py, fund.py *)

\* INSERT INTO budget ... RETURNING id, committed on its own
create_budget(user_id, name, month, year) ==
    Append(budget, [user_id |-> user_id, name |-> name, enable |-> TRUE,
                    deleted |-> FALSE, month |-> month, year |-> year])

\* expected_amount: <<>> for None (refused by the NOT NULL column)
create_income(user_id, name, fixed, expected_amount, month, year) ==
    LET budget_id == Len(budget) + 1
    IN  /\ budget' = create_budget(user_id, name, month, year)
        /\ IF expected_amount = <<>>
           THEN /\ UNCHANGED income
                /\ last' = [op |-> "create_income", ok |-> FALSE]
           ELSE /\ income' = Put(income, budget_id,
                                 IncomeRow(fixed, expected_amount[1]))
                /\ last' = [op |-> "create_income", ok |-> TRUE]
        /\ UNCHANGED <<expense, fund, fund_masters, next_master_id, txn,
                       line_item, next_line_item_id, runs, sessions>>

create_expense(user_id, name, fixed, flexible, expected_amount, month, year) ==
    LET budget_id == Len(budget) + 1
    IN  /\ budget' = create_budget(user_id, name, month, year)
        /\ IF expected_amount = <<>>
           THEN /\ UNCHANGED expense
                /\ last' = [op |-> "create_expense", ok |-> FALSE]
           ELSE /\ expense' = Put(expense, budget_id,
                                  ExpenseRow(fixed, flexible, expected_amount[1]))
                /\ last' = [op |-> "create_expense", ok |-> TRUE]
        /\ UNCHANGED <<income, fund, fund_masters, next_master_id, txn,
                       line_item, next_line_item_id, runs, sessions>>

\* priority: <<>> for None (refused by the NOT NULL column);
\* master_fund_id: 0 for None (a new master is created)
create_fund(user_id, name, priority, increment, month_amount, max_amount, month, year, master_fund_id) ==
    LET budget_id == Len(budget) + 1
        new_master == master_fund_id = 0
        master_id == IF new_master THEN next_master_id ELSE master_fund_id
    IN  /\ budget' = create_budget(user_id, name, month, year)
        \* the id of a flushed master is consumed even when the insert fails
        /\ next_master_id' = IF new_master THEN next_master_id + 1
                             ELSE next_master_id
        /\ IF priority = <<>> \/ (~new_master /\ master_id \notin DOMAIN fund_masters)
           THEN /\ UNCHANGED <<fund, fund_masters>>
                /\ last' = [op |-> "create_fund", ok |-> FALSE]
           ELSE /\ fund_masters' =
                      IF new_master
                      THEN Put(fund_masters, master_id, MasterRow(name, 0))
                      ELSE fund_masters
                /\ fund' = Put(fund, budget_id,
                               FundRow(priority[1], increment, max_amount,
                                       month_amount, master_id))
                /\ last' = [op |-> "create_fund", ok |-> TRUE,
                            budget_id |-> budget_id]
        /\ UNCHANGED <<income, expense, txn, line_item, next_line_item_id, runs, sessions>>

-----------------------------------------------------------------------------
(* crud/budget/copy.py, controllers/budget/management.py *)

\* all the orders in which a query without ORDER BY may return the rows `ids`
Orders(ids) ==
    {o \in [1 .. Cardinality(ids) -> ids] :
        \A i, j \in 1 .. Cardinality(ids) : i # j => o[i] # o[j]}

BudgetsOf(s, user_id, month, year) ==
    {b \in DOMAIN s.budget :
        /\ s.budget[b].user_id = user_id
        /\ s.budget[b].month = month
        /\ s.budget[b].year = year}

copy_check_source_first(target_has_budgets, source_has_budgets) ==
    IF ~source_has_budgets THEN "No budgets found"
    ELSE IF target_has_budgets THEN "already has budgets"
    ELSE "none"

copy_check_target_only(target_has_budgets, source_has_budgets) ==
    IF target_has_budgets THEN "already has budgets" ELSE "none"

\* the two precondition checks, in the order the code makes them
copy_check(target_has_budgets, source_has_budgets) ==
    IF target_has_budgets THEN "already has budgets"
    ELSE IF ~source_has_budgets THEN "No budgets found"
    ELSE "none"

\* the exception the controller raises for a ValueError of the copy
_handle_copy_error(error_msg) ==
    IF error_msg = "already has budgets" THEN "FinanceServerError"
    ELSE IF error_msg = "No budgets found" THEN "NotFoundException"
    ELSE "ValueError"

copied_fund_keeps_amount(prev_fund) == prev_fund

\* the Fund row inserted for the copy of a Fund row
copied_fund(prev_fund) ==
    FundRow(prev_fund.priority, prev_fund.increment, prev_fund.max, 0,
            prev_fund.master_fund_id)

\* the source month: the one given, else the month before the target
\* source_month, source_year: <<>> for None
resolve_source(target_month, target_year, source_month, source_year) ==
    IF source_month = <<>> \/ source_year = <<>>
    THEN IF target_month = 1
         THEN [month |-> 12, year |-> target_year - 1]
         ELSE [month |-> target_month - 1, year |-> target_year]
    ELSE [month |-> source_month[1], year |-> source_year[1]]

copy_budgets_from_previous_month(user_id, target_month, target_year, source_month, source_year) ==
    LET prev == resolve_source(target_month, target_year, source_month, source_year)
        prev_month == prev.month
        prev_year  == prev.year
        target_rows == BudgetsOf(Store, user_id, target_month, target_year)
        prev_budgets == BudgetsOf(Store, user_id, prev_month, prev_year)
        error == copy_check(target_rows # {}, prev_budgets # {})
        request == [op |-> "copy_budgets_from_previous_month", user_id |-> user_id,
                    target_month |-> target_month, target_year |-> target_year,
                    source_month |-> prev_month, source_year |-> prev_year]
    IN  IF error # "none"
        THEN /\ UNCHANGED <<tables, runs, sessions>>
             /\ last' = request @@ [ok |-> FALSE, error |-> error,
                                    raised |-> _handle_copy_error(error)]
        ELSE \E rows \in Orders(prev_budgets) :
             LET n == Cardinality(prev_budgets)
                 base == Len(budget)
                 new_ids == (base + 1) .. (base + n)
                 src(id) == rows[id - base]
                 of_kind(table) == {id \in new_ids : src(id) \in DOMAIN table}
             IN  /\ budget' =
                        [id \in 1 .. (base + n) |->
                            IF id <= base THEN budget[id]
                            ELSE [user_id |-> user_id,
                                  name |-> budget[src(id)].name,
                                  enable |-> budget[src(id)].enable,
                                  deleted |-> budget[src(id)].deleted,
                                  month |-> target_month,
                                  year |-> target_year]]
                 /\ income' =
                        [id \in DOMAIN income \cup of_kind(income) |->
                            IF id \in DOMAIN income THEN income[id]
                            ELSE income[src(id)]]
                 /\ expense' =
                        [id \in DOMAIN expense \cup (of_kind(expense) \ of_kind(income)) |->
                            IF id \in DOMAIN expense THEN expense[id]
                            ELSE expense[src(id)]]
                 /\ fund' =
                        [id \in DOMAIN fund \cup
                                (of_kind(fund) \ (of_kind(income) \cup of_kind(expense))) |->
                            IF id \in DOMAIN fund THEN fund[id]
                            ELSE copied_fund(fund[src(id)])]
                 /\ UNCHANGED <<fund_masters, next_master_id, txn, line_item,
                                next_line_item_id, runs, sessions>>
                 /\ last' = request @@
                        [ok |-> TRUE,
                         copied_budgets |->
                            [income |-> Cardinality(of_kind(income)),
                             expense |-> Cardinality(
                                {id \in of_kind(expense) \ of_kind(income) :
                                    ~expense[src(id)].flexible}),
                             flexible |-> Cardinality(
                                {id \in of_kind(expense) \ of_kind(income) :
                                    expense[src(id)].flexible}),
                             fund |-> Cardinality(
                                of_kind(fund) \ (of_kind(income) \cup of_kind(expense)))]]

-----------------------------------------------------------------------------
(* SpecCopy: category creation and month copy, from an empty store *)

InitCopy ==
    /\ budget = <<>>
    /\ income = EmptyTable
    /\ expense = EmptyTable
    /\ fund = EmptyTable
    /\ fund_masters = EmptyTable
    /\ next_master_id = 1
    /\ txn = <<>>
    /\ line_item = EmptyTable
    /\ next_line_item_id = 1
    /\ runs = 0
    /\ sessions = NoSessions
    /\ last = [op |-> "init"]

CreateIncome ==
    /\ Len(budget) < MaxBudgets
    /\ \/ create_income(1, "A", TRUE, <<10>>, P1.month, P1.year)
       \/ create_income(2, "A", TRUE, <<10>>, P2.month, P2.year)
       \/ create_income(1, "A", TRUE, <<>>, P1.month, P1.year)

CreateExpense ==
    /\ Len(budget) < MaxBudgets
    /\ \E flexible \in BOOLEAN :
          create_expense(1, "B", ~flexible, flexible, <<5>>, P1.month, P1.year)

CreateFund ==
    /\ Len(budget) < MaxBudgets
    /\ \E master_fund_id \in {0} \cup DOMAIN fund_masters :
          create_fund(1, "B", <<1>>, 4, 3, <<20>>, P1.month, P1.year, master_fund_id)

\* Budget.enable and Budget.deleted are written by no code under src/; the
\* data model lets the two flags change, which this step stands for
set_budget_flags(budget_id, enable, deleted) ==
    /\ budget_id \in DOMAIN budget
    /\ budget' = [budget EXCEPT ![budget_id].enable = enable,
                                ![budget_id].deleted = deleted]
    /\ UNCHANGED <<income, expense, fund, fund_masters, next_master_id, txn,
                   line_item, next_line_item_id, runs, sessions>>
    /\ last' = [op |-> "set_budget_flags", ok |-> TRUE]

SetBudgetFlags == set_budget_flags(1, FALSE, TRUE)

\* the copy requests offered: user, target month, source month (<<>>: default)
CopyInputs ==
    { <<1, P2, <<>>>>, <<1, P2, <<P3>>>>, <<1, P1, <<P1>>>>,
      <<1, P3, <<P1>>>>, <<1, P1, <<>>>>, <<2, P3, <<>>>> }

CopyBudgets ==
    \E input \in CopyInputs :
       LET user_id == input[1]
           target  == input[2]
           source_month == IF input[3] = <<>> THEN <<>> ELSE <<input[3][1].month>>
           source_year  == IF input[3] = <<>> THEN <<>> ELSE <<input[3][1].year>>
           prev == resolve_source(target.month, target.year,
                                  source_month, source_year)
       IN  /\ Len(budget)
                + Cardinality(BudgetsOf(Store, user_id, prev.month, prev.year))
                <= MaxBudgets
           /\ copy_budgets_from_previous_month(
                  user_id, target.month, target.year, source_month, source_year)

NextCopy ==
    \/ CreateIncome
    \/ CreateExpense
    \/ CreateFund
    \/ SetBudgetFlags
    \/ CopyBudgets

SpecCopy == InitCopy /\ [][NextCopy]_vars

-----------------------------------------------------------------------------
(* Properties of the month copy (SpecCopy) *)

CopyDone == last.op = "copy_budgets_from_previous_month"

\* the rows of a month, read from the tables by their columns
RowsOfMonth(user_id, year, month) ==
    {b \in DOMAIN budget :
        /\ budget[b].user_id = user_id
        /\ budget[b].year = year
        /\ budget[b].month = month}

\* C8: a successful copy creates, for every Budget row of the source month,
\* exactly one row in the target month with the same name, enable, deleted
\* and variant; Income and Expense fields are copied verbatim, a Fund copy
\* keeps priority, increment, max and master_fund_id with month_amount 0; no
\* existing row is modified and the counts returned are the rows copied.
C8_CopyCreatesEquivalentRows ==
    [][ (CopyDone' /\ last'.ok) =>
        LET src == RowsOfMonth(last'.user_id, last'.source_year, last'.source_month)
            new == DOMAIN budget' \ DOMAIN budget
        IN  /\ \E g \in [src -> new] :
                  /\ \A c \in new : \E r \in src : g[r] = c
                  /\ \A q, r \in src : q # r => g[q] # g[r]
                  /\ \A r \in src :
                        /\ budget'[g[r]] =
                              [budget[r] EXCEPT !.month = last'.target_month,
                                                !.year = last'.target_year]
                        /\ g[r] \in DOMAIN income' <=> r \in DOMAIN income
                        /\ g[r] \in DOMAIN expense' <=> r \in DOMAIN expense
                        /\ g[r] \in DOMAIN fund' <=> r \in DOMAIN fund
                        /\ r \in DOMAIN income => income'[g[r]] = income[r]
                        /\ r \in DOMAIN expense => expense'[g[r]] = expense[r]
                        /\ r \in DOMAIN fund =>
                              fund'[g[r]] = [fund[r] EXCEPT !.month_amount = 0]
            /\ \A b \in DOMAIN budget : budget'[b] = budget[b]
            /\ \A b \in DOMAIN income : income'[b] = income[b]
            /\ \A b \in DOMAIN expense : expense'[b] = expense[b]
            /\ \A b \in DOMAIN fund : fund'[b] = fund[b]
            /\ (DOMAIN income' \cup DOMAIN expense' \cup DOMAIN fund')
                  \cap DOMAIN budget
                  = DOMAIN income \cup DOMAIN expense \cup DOMAIN fund
            /\ fund_masters' = fund_masters
            /\ last'.copied_budgets =
                  [income |-> Cardinality(src \cap DOMAIN income),
                   expense |-> Cardinality({r \in src \cap DOMAIN expense :
                                               ~expense[r].flexible}),
                   flexible |-> Cardinality({r \in src \cap DOMAIN expense :
                                                expense[r].flexible}),
                   fund |-> Cardinality(src \cap DOMAIN fund)]
      ]_vars

\* a copy of a month holding a Fund row with a non-zero month_amount, a
\* disabled row and another variant: the Fund copy sits on the same master
\* with month_amount 0
C8_Witness ==
    /\ CopyDone /\ last.ok
    /\ last.copied_budgets.fund >= 1
    /\ last.copied_budgets.income + last.copied_budgets.expense
          + last.copied_budgets.flexible >= 1
    /\ \E r \in RowsOfMonth(last.user_id, last.source_year, last.source_month),
          c \in RowsOfMonth(last.user_id, last.target_year, last.target_month) :
          /\ r \in DOMAIN fund /\ c \in DOMAIN fund
          /\ fund[r].master_fund_id = fund[c].master_fund_id
          /\ fund[r].month_amount # 0
          /\ fund[c].month_amount = 0
    /\ \E c \in RowsOfMonth(last.user_id, last.target_year, last.target_month) :
          ~budget[c].enable /\ budget[c].deleted

C10_EmptySourceAlwaysNotFound ==
    [][ ( /\ CopyDone'
          /\ RowsOfMonth(last'.user_id, last'.source_year, last'.source_month) = {} )
        => /\ ~last'.ok
           /\ last'.error = "No budgets found"
           /\ last'.raised = "NotFoundException"
           /\ UNCHANGED tables
      ]_vars

\* C10 (amended): a copy from a source month without Budget rows of the user
\* into a target month without Budget rows of the user fails with the
\* Not-found ('No budgets found') error and creates no row.
C10_EmptySourceNotFound ==
    [][ ( /\ CopyDone'
          /\ RowsOfMonth(last'.user_id, last'.source_year, last'.source_month) = {}
          /\ RowsOfMonth(last'.user_id, last'.target_year, last'.target_month) = {} )
        => /\ ~last'.ok
           /\ last'.error = "No budgets found"
           /\ last'.raised = "NotFoundException"
           /\ UNCHANGED tables
      ]_vars

\* refused with Not-found while the user has budgets in other months
C10_Witness ==
    /\ CopyDone /\ ~last.ok
    /\ last.error = "No budgets found"
    /\ last.raised = "NotFoundException"
    /\ RowsOfMonth(last.user_id, last.target_year, last.target_month) = {}
    /\ \E b \in DOMAIN budget : budget[b].user_id = last.user_id

-----------------------------------------------------------------------------
(* crud/budget/queries.py, crud/budget/calculations_fund.py *)

\* the four lists of get_budgets, each a table id -> entry; a Budget row
\* without a variant row is in none of them
get_budgets(s, user_id, month, year) ==
    LET budget_sums == get_all_budget_sums_with_line_items(s, month, year)
        carryover_by_name == get_carryover_for_budgets(s, user_id, month, year)
        rows == BudgetsOf(s, user_id, month, year)
        budget_info(b) ==
            [id |-> b,
             transaction_sum |-> DictGet(budget_sums, b, 0),
             carryover |-> DictGet(carryover_by_name, s.budget[b].name, 0),
             month_amount |-> IF b \in DOMAIN s.fund THEN s.fund[b].month_amount
                              ELSE 0]
        is_income(b) == b \in DOMAIN s.income
        is_expense(b) == ~is_income(b) /\ b \in DOMAIN s.expense
        is_fund(b) == ~is_income(b) /\ ~is_expense(b) /\ b \in DOMAIN s.fund
    IN  [incomes |-> [b \in {r \in rows : is_income(r)} |-> budget_info(b)],
         expenses |-> [b \in {r \in rows : is_expense(r) /\ ~s.expense[r].flexible}
                          |-> budget_info(b)],
         flexibles |-> [b \in {r \in rows : is_expense(r) /\ s.expense[r].flexible}
                           |-> budget_info(b)],
         funds |-> [b \in {r \in rows : is_fund(r)} |-> budget_info(b)]]

calculate_fund_balance_stored(s, fund_id) ==
    IF fund_id \in DOMAIN s.fund
       /\ s.fund[fund_id].master_fund_id \in DOMAIN s.fund_masters
    THEN [master_balance |-> s.fund_masters[s.fund[fund_id].master_fund_id].total_amount]
    ELSE [master_balance |-> 0]

calculate_fund_balance(s, fund_id) ==
    IF fund_id \in DOMAIN s.fund
       /\ s.fund[fund_id].master_fund_id \in DOMAIN s.fund_masters
    THEN [master_balance |->
              calculate_master_balance(s, s.fund[fund_id].master_fund_id)]
    ELSE [master_balance |-> 0]

-----------------------------------------------------------------------------
(* crud/budget/master_fund_operations.py *)

funds_to_update_source_only(s, source_fund_id) == {source_fund_id}

\* the Fund rows of the master of the source fund
funds_to_update(s, source_fund_id) ==
    {f \in DOMAIN s.fund :
        s.fund[f].master_fund_id = s.fund[source_fund_id].master_fund_id}

\* combined_balance = target_master.total_amount + source_master.total_amount
combined_balance(s, source_master_id, target_master_id) ==
    s.fund_masters[target_master_id].total_amount
    + s.fund_masters[source_master_id].total_amount

\* the variant that does not compare the two masters
combine_fund_masters_any_family(source_fund_id, target_fund_id) ==
    LET found(f) == /\ f \in DOMAIN fund
                    /\ fund[f].master_fund_id \in DOMAIN fund_masters
                    /\ f \in DOMAIN budget
        request == [op |-> "combine_fund_masters",
                    source_fund_id |-> source_fund_id,
                    target_fund_id |-> target_fund_id]
        failed(msg) == /\ UNCHANGED <<tables, runs, sessions>>
                       /\ last' = request @@ [ok |-> FALSE, error |-> msg]
    IN  IF ~found(source_fund_id) THEN failed("Source fund not found")
        ELSE IF ~found(target_fund_id) THEN failed("Target fund not found")
        ELSE
          LET source_master_id == fund[source_fund_id].master_fund_id
              target_master_id == fund[target_fund_id].master_fund_id
              combined == combined_balance(Store, source_master_id, target_master_id)
              moved == funds_to_update(Store, source_fund_id)
          IN  /\ fund' = [f \in DOMAIN fund |->
                            IF f \in moved
                            THEN [fund[f] EXCEPT !.master_fund_id = target_master_id]
                            ELSE fund[f]]
              /\ fund_masters' =
                    Remove([fund_masters EXCEPT
                               ![target_master_id].total_amount = combined],
                           source_master_id)
              /\ UNCHANGED <<budget, income, expense, next_master_id, txn,
                             line_item, next_line_item_id, runs, sessions>>
              /\ last' = request @@
                         [ok |-> TRUE,
                          target_master_id |-> target_master_id,
                          deleted_master_id |-> source_master_id,
                          combined_balance |-> combined,
                          funds_combined |-> Cardinality(moved)]

combine_fund_masters(source_fund_id, target_fund_id) ==
    LET found(f) == /\ f \in DOMAIN fund
                    /\ fund[f].master_fund_id \in DOMAIN fund_masters
                    /\ f \in DOMAIN budget
        request == [op |-> "combine_fund_masters",
                    source_fund_id |-> source_fund_id,
                    target_fund_id |-> target_fund_id]
        failed(msg) == /\ UNCHANGED <<tables, runs, sessions>>
                       /\ last' = request @@ [ok |-> FALSE, error |-> msg]
    IN  IF ~found(source_fund_id) THEN failed("Source fund not found")
        ELSE IF ~found(target_fund_id) THEN failed("Target fund not found")
        ELSE IF fund[source_fund_id].master_fund_id = fund[target_fund_id].master_fund_id
        THEN failed("Funds are already in the same master fund family")
        ELSE
          LET source_master_id == fund[source_fund_id].master_fund_id
              target_master_id == fund[target_fund_id].master_fund_id
              combined == combined_balance(Store, source_master_id, target_master_id)
              moved == funds_to_update(Store, source_fund_id)
          IN  /\ fund' = [f \in DOMAIN fund |->
                            IF f \in moved
                            THEN [fund[f] EXCEPT !.master_fund_id = target_master_id]
                            ELSE fund[f]]
              /\ fund_masters' =
                    Remove([fund_masters EXCEPT
                               ![target_master_id].total_amount = combined],
                           source_master_id)
              /\ UNCHANGED <<budget, income, expense, next_master_id, txn,
                             line_item, next_line_item_id, runs, sessions>>
              /\ last' = request @@
                         [ok |-> TRUE,
                          target_master_id |-> target_master_id,
                          deleted_master_id |-> source_master_id,
                          combined_balance |-> combined,
                          funds_combined |-> Cardinality(moved)]

-----------------------------------------------------------------------------
(* crud/budget/calculations_fund_allocations.py *)

Min(a, b) == IF a <= b THEN a ELSE b
Max(a, b) == IF a >= b THEN a ELSE b

\* sum(entry[field] for entry in entries)
SumField(entries, field) ==
    SumOver(DOMAIN entries, [b \in DOMAIN entries |-> entries[b][field]])

balance_before_enabled_funds(s, user_id, month, year) ==
    LET budgets_data == get_budgets(s, user_id, month, year)
        total_carryover == SumField(budgets_data.incomes, "carryover")
                           + SumField(budgets_data.expenses, "carryover")
                           + SumField(budgets_data.flexibles, "carryover")
                           + SumField(budgets_data.funds, "carryover")
        enabled == {b \in DOMAIN budgets_data.funds : s.budget[b].enable}
    IN  SumField(budgets_data.incomes, "transaction_sum")
        + SumField(budgets_data.expenses, "transaction_sum")
        + SumField(budgets_data.flexibles, "transaction_sum")
        + total_carryover
        - SumOver(enabled, [b \in DOMAIN budgets_data.funds |->
                               budgets_data.funds[b].month_amount])

\* the balance of the month before the run
balance_before(s, user_id, month, year) ==
    LET budgets_data == get_budgets(s, user_id, month, year)
        total_income == SumField(budgets_data.incomes, "transaction_sum")
        total_expenses == SumField(budgets_data.expenses, "transaction_sum")
        total_flexible == SumField(budgets_data.flexibles, "transaction_sum")
        total_carryover == SumField(budgets_data.incomes, "carryover")
                           + SumField(budgets_data.expenses, "carryover")
                           + SumField(budgets_data.flexibles, "carryover")
                           + SumField(budgets_data.funds, "carryover")
        total_funds == SumField(budgets_data.funds, "month_amount")
    IN  total_income + total_expenses + total_flexible + total_carryover
        - total_funds

order_by_priority_only(s, a, b) == s.fund[a].priority <= s.fund[b].priority

\* ORDER BY Fund.priority ASC, Fund.id ASC: row a is not after row b
order_by(s, a, b) ==
    \/ s.fund[a].priority < s.fund[b].priority
    \/ s.fund[a].priority = s.fund[b].priority /\ a <= b

funds_query_with_disabled(s, user_id, month, year) ==
    LET ids == {f \in DOMAIN s.fund \cap DOMAIN s.budget :
                    /\ s.budget[f].user_id = user_id
                    /\ s.budget[f].month = month
                    /\ s.budget[f].year = year}
    IN  {o \in Orders(ids) :
            \A i, j \in DOMAIN o : i < j => order_by(s, o[i], o[j])}

\* the results the funds query may return: the enabled Fund rows of the
\* month in an order the ORDER BY clause allows
funds_query(s, user_id, month, year) ==
    LET ids == {f \in DOMAIN s.fund \cap DOMAIN s.budget :
                    /\ s.budget[f].user_id = user_id
                    /\ s.budget[f].month = month
                    /\ s.budget[f].year = year
                    /\ s.budget[f].enable}
    IN  {o \in Orders(ids) :
            \A i, j \in DOMAIN o : i < j => order_by(s, o[i], o[j])}

\* fund.max - current_balance, the balance read through the session of the run
room_to_max(s, fund_id) ==
    s.fund[fund_id].max[1] - calculate_fund_balance(s, fund_id).master_balance

safe_mode_amount_unclamped(safe_mode, remaining_balance, amount_to_add) ==
    amount_to_add

\* a safe mode that gives half of what is left to a fund it cannot pay in full
safe_mode_amount_halving(safe_mode, remaining_balance, amount_to_add) ==
    IF safe_mode /\ (remaining_balance - amount_to_add) < 0
    THEN Max(0, remaining_balance) \div 2
    ELSE amount_to_add

safe_mode_amount_always_checked(safe_mode, remaining_balance, amount_to_add) ==
    IF (remaining_balance - amount_to_add) < 0
    THEN Max(0, remaining_balance)
    ELSE amount_to_add

\* the amount after the safe-mode check
safe_mode_amount(safe_mode, remaining_balance, amount_to_add) ==
    IF safe_mode /\ (remaining_balance - amount_to_add) < 0
    THEN Max(0, remaining_balance)
    ELSE amount_to_add

\* one pass of the loop body for the row `fund_id`; `run` carries the session
\* (s), the two lists, the totals and the record of the passes made (steps)
allocate(run, fund_id, safe_mode) ==
    LET row == run.s.fund[fund_id]
        fund_name == run.s.budget[fund_id].name
        remaining_balance == run.remaining_balance
        pass(wanted, amount, reason) ==
            [fund_id |-> fund_id, remaining_before |-> remaining_balance,
             wanted |-> wanted, amount |-> amount, reason |-> reason]
        skipped(wanted, reason) ==
            [run EXCEPT
                !.skipped_funds = Append(@, [fund_id |-> fund_id,
                                             fund_name |-> fund_name,
                                             reason |-> reason]),
                !.steps = Append(@, pass(wanted, 0, reason))]
        limited == row.max # <<>>
        room == IF limited THEN room_to_max(run.s, fund_id) ELSE 0
        amount_to_add == IF limited THEN Min(row.increment, room)
                         ELSE row.increment
        overdraw == safe_mode /\ (remaining_balance - amount_to_add) < 0
        amount == safe_mode_amount(safe_mode, remaining_balance, amount_to_add)
        new_total == run.s.fund_masters[row.master_fund_id].total_amount + amount
    IN  IF row.increment = 0 THEN skipped(<<>>, "Increment is 0")
        ELSE IF limited /\ room <= 0
        THEN skipped(<<>>, "Fund has reached maximum")
        ELSE IF overdraw /\ amount = 0
        THEN skipped(<<amount_to_add>>, "Insufficient balance (safe mode)")
        ELSE [s |-> [run.s EXCEPT
                        !.fund[fund_id].month_amount = @ + amount,
                        !.fund_masters[row.master_fund_id].total_amount = new_total],
              applied_funds |-> Append(run.applied_funds,
                                       [fund_id |-> fund_id,
                                        fund_name |-> fund_name,
                                        amount_added |-> amount,
                                        new_master_balance |-> new_total]),
              skipped_funds |-> run.skipped_funds,
              total_applied |-> run.total_applied + amount,
              remaining_balance |-> remaining_balance - amount,
              steps |-> Append(run.steps, pass(<<amount_to_add>>, amount, "applied"))]

\* for fund in funds, from the i-th row on
RECURSIVE allocate_all(_, _, _, _)
allocate_all(run, funds, i, safe_mode) ==
    IF i > Len(funds) THEN run
    ELSE allocate_all(allocate(run, funds[i], safe_mode), funds, i + 1, safe_mode)

\* the run over the rows `funds` as the query returned them
run_apply_fund_increments(s, user_id, month, year, safe_mode, funds) ==
    allocate_all([s |-> s, applied_funds |-> <<>>, skipped_funds |-> <<>>,
                  total_applied |-> 0,
                  remaining_balance |-> balance_before(s, user_id, month, year),
                  steps |-> <<>>],
                 funds, 1, safe_mode)

apply_fund_increments(user_id, month, year, safe_mode) ==
    \E funds \in funds_query(Store, user_id, month, year) :
        \E run \in {run_apply_fund_increments(Store, user_id, month, year,
                                              safe_mode, funds)} :
            /\ fund' = run.s.fund
            /\ fund_masters' = run.s.fund_masters
            /\ runs' = runs + 1
            /\ UNCHANGED <<budget, income, expense, next_master_id, txn,
                           line_item, next_line_item_id, sessions>>
            /\ last' = [op |-> "apply_fund_increments", ok |-> TRUE,
                        user_id |-> user_id, month |-> month, year |-> year,
                        safe_mode |-> safe_mode,
                        applied_funds |-> run.applied_funds,
                        skipped_funds |-> run.skipped_funds,
                        balance_before |-> balance_before(Store, user_id, month, year),
                        balance_after |-> run.remaining_balance,
                        total_applied |-> run.total_applied,
                        would_go_negative |-> run.remaining_balance < 0,
                        steps |-> run.steps]

-----------------------------------------------------------------------------
(* Specification SpecFund: fund masters and the allocation of increments *)

\* user 1: an income "Pay" in P1 (2.00 received) and in P2 (10.00 received),
\* and a fund "Trip" of P2 created with month_amount 2.00 that has spent 1.00
InitFund ==
    /\ budget = << BudgetRow(1, "Pay", P1, TRUE), BudgetRow(1, "Pay", P2, TRUE),
                   BudgetRow(1, "Trip", P2, TRUE) >>
    /\ income = (1 :> IncomeRow(TRUE, 0)) @@ (2 :> IncomeRow(TRUE, 0))
    /\ expense = EmptyTable
    /\ fund = (3 :> FundRow(1, 5, <<5>>, 2, 1))
    /\ fund_masters = (1 :> MasterRow("Trip", 0))
    /\ next_master_id = 2
    /\ txn = (1 :> [TxnRow(2, MonthEnd(P1.year, P1.month)) EXCEPT !.budget_id = 1])
             @@ (2 :> [TxnRow(10, MonthStart(P2.year, P2.month)) EXCEPT !.budget_id = 2])
             @@ (3 :> [TxnRow(-1, MonthEnd(P2.year, P2.month)) EXCEPT !.budget_id = 3])
    /\ line_item = EmptyTable
    /\ next_line_item_id = 1
    /\ runs = 0
    /\ sessions = NoSessions
    /\ last = [op |-> "none", ok |-> TRUE]

\* the funds offered for creation in month P2: name, priority, increment,
\* max and master (0: a new one; 1: the master of the fund "Trip")
FundInputs ==
    { <<"Car", 2, 8, <<>>, 0>>, <<"Bike", 1, 5, <<7>>, 1>>,
      <<"Gift", 1, 0, <<>>, 0>>, <<"Loan", 1, -2, <<>>, 0>> }

CreateMonthFund ==
    /\ Len(budget) <= MaxBudgets
    /\ \E input \in FundInputs :
          create_fund(1, input[1], <<input[2]>>, input[3], 0, input[4],
                      P2.month, P2.year, input[5])

\* the merges offered: source fund, target fund
CombineInputs ==
    { <<4, 3>>, <<5, 4>> }

CombineFundMasters ==
    \E input \in CombineInputs : combine_fund_masters(input[1], input[2])

DisableFund ==
    /\ 4 \in DOMAIN budget
    /\ budget[4].enable
    /\ set_budget_flags(4, FALSE, FALSE)

ApplyFundIncrements ==
    /\ runs < MaxRuns
    /\ \E safe_mode \in BOOLEAN :
          apply_fund_increments(1, P2.month, P2.year, safe_mode)

NextFund ==
    \/ CreateMonthFund
    \/ CombineFundMasters
    \/ DisableFund
    \/ ApplyFundIncrements

SpecFund == InitFund /\ [][NextFund]_vars

-----------------------------------------------------------------------------
(* Properties of the fund masters and of the allocation (SpecFund) *)

\* what the transactions and line items of the store s contribute to budget b
AssignedTotal(s, b) ==
    SumOver(DOMAIN s.txn,
            [t \in DOMAIN s.txn |->
                IF s.txn[t].is_split
                THEN SumOver({l \in DOMAIN s.line_item :
                                 /\ s.line_item[l].parent_transaction_id = t
                                 /\ s.line_item[l].budget_id = b},
                             [l \in DOMAIN s.line_item |-> s.line_item[l].amount])
                ELSE IF s.txn[t].budget_id = b THEN s.txn[t].amount ELSE 0])

\* the recomputed balance of master m in the store s
RecomputedBalance(s, m) ==
    SumOver({f \in DOMAIN s.fund : s.fund[f].master_fund_id = m},
            [f \in DOMAIN s.fund |-> s.fund[f].month_amount + AssignedTotal(s, f)])

CombineDone == last.op = "combine_fund_masters" /\ last.ok

\* C2: after a successful combine_fund_masters(source_fund, target_fund) the
\* recomputed balance of the target master is its recomputed balance before
\* the call plus that of the source master, the source master is gone, and
\* every Fund row that was on the source master is on the target master.
C2_CombineConservesBalance ==
    [][ CombineDone' =>
        LET source == fund[last'.source_fund_id].master_fund_id
            target == fund[last'.target_fund_id].master_fund_id
        IN  /\ RecomputedBalance(Store', target)
                  = RecomputedBalance(Store, target) + RecomputedBalance(Store, source)
            /\ source \notin DOMAIN fund_masters'
            /\ target \in DOMAIN fund_masters'
            /\ DOMAIN fund' = DOMAIN fund
            /\ \A f \in DOMAIN fund :
                  /\ fund[f].master_fund_id = source
                        => fund'[f].master_fund_id = target
                  /\ fund[f].master_fund_id # source
                        => fund'[f].master_fund_id = fund[f].master_fund_id
      ]_vars

\* a merge that moved two Fund rows into a master that had rows of its own,
\* where the recomputed balance differs from the stored total
C2_Witness ==
    /\ CombineDone
    /\ last.funds_combined = 2
    /\ Cardinality({f \in DOMAIN fund :
                       fund[f].master_fund_id = last.target_master_id}) = 3
    /\ last.deleted_master_id \notin DOMAIN fund_masters
    /\ RecomputedBalance(Store, last.target_master_id) # last.combined_balance
    /\ \E f \in DOMAIN fund : /\ fund[f].master_fund_id = last.target_master_id
                              /\ f # last.source_fund_id
                              /\ f # last.target_fund_id
                              /\ fund[f].month_amount > 2

ApplyDone == last.op = "apply_fund_increments"

\* the enabled Fund rows of a user's month
EnabledFunds(user_id, year, month) ==
    {f \in DOMAIN fund \cap DOMAIN budget :
        /\ budget[f].user_id = user_id
        /\ budget[f].year = year
        /\ budget[f].month = month
        /\ budget[f].enable}

\* fund a comes before fund b: lower priority number, then lower id
ComesBefore(a, b) ==
    \/ fund[a].priority < fund[b].priority
    \/ fund[a].priority = fund[b].priority /\ a < b

\* C3: apply_fund_increments considers the enabled Fund rows of the month in
\* ascending priority, ties by ascending id: each fund's amount is decided
\* and deducted from the running balance before the next fund's, the entries
\* of applied_funds and of skipped_funds follow that order, and every run the
\* code can make from the same store yields the same lists, the same final
\* balance and the same rows.
C3_PriorityOrderDeterministic ==
    [][ ApplyDone' =>
        LET steps == last'.steps
            applied == last'.applied_funds
            skipped == last'.skipped_funds
            considered == EnabledFunds(last'.user_id, last'.year, last'.month)
        IN  /\ Len(steps) = Cardinality(considered)
            /\ {steps[i].fund_id : i \in DOMAIN steps} = considered
            /\ \A i, j \in DOMAIN steps :
                  i < j => ComesBefore(steps[i].fund_id, steps[j].fund_id)
            /\ steps # <<>> => steps[1].remaining_before = last'.balance_before
            /\ \A i \in DOMAIN steps :
                  (IF i = Len(steps) THEN last'.balance_after
                   ELSE steps[i + 1].remaining_before)
                     = steps[i].remaining_before - steps[i].amount
            /\ steps = <<>> => last'.balance_after = last'.balance_before
            /\ \A i, j \in DOMAIN applied :
                  i < j => ComesBefore(applied[i].fund_id, applied[j].fund_id)
            /\ \A i, j \in DOMAIN skipped :
                  i < j => ComesBefore(skipped[i].fund_id, skipped[j].fund_id)
            /\ {applied[i].fund_id : i \in DOMAIN applied}
                  \cup {skipped[i].fund_id : i \in DOMAIN skipped} = considered
            /\ Len(applied) + Len(skipped) = Cardinality(considered)
            /\ \A funds \in funds_query(Store, last'.user_id, last'.month, last'.year) :
                  \E again \in {run_apply_fund_increments(
                                    Store, last'.user_id, last'.month, last'.year,
                                    last'.safe_mode, funds)} :
                      /\ again.applied_funds = applied
                      /\ again.skipped_funds = skipped
                      /\ again.remaining_balance = last'.balance_after
                      /\ again.s.fund = fund'
                      /\ again.s.fund_masters = fund_masters'
      ]_vars

\* a run over three funds: two of equal priority, and one of a lower priority
\* number that was created last; at least two funds received an amount and
\* the balance ran out, so the order decided who got what
C3_Witness ==
    /\ ApplyDone
    /\ Len(last.steps) = 3
    /\ \E i, j \in DOMAIN last.steps :
          /\ i < j
          /\ fund[last.steps[i].fund_id].priority = fund[last.steps[j].fund_id].priority
    /\ \E i, j \in DOMAIN last.steps :
          /\ i < j
          /\ last.steps[i].fund_id > last.steps[j].fund_id
    /\ Len(last.applied_funds) >= 2
    /\ Len(last.skipped_funds) >= 1
    /\ last.safe_mode
    /\ last.balance_after = 0

\* the entry of skipped_funds for fund f carries the reason
SkippedFor(response, f, reason) ==
    \E i \in DOMAIN response.skipped_funds :
        /\ response.skipped_funds[i].fund_id = f
        /\ response.skipped_funds[i].reason = reason

\* the entry of applied_funds for fund f carries the amount
AppliedFor(response, f, amount) ==
    \E i \in DOMAIN response.applied_funds :
        /\ response.applied_funds[i].fund_id = f
        /\ response.applied_funds[i].amount_added = amount

\* C4: in safe mode with balance_before >= 0 the running balance is >= 0
\* after every fund, balance_after >= 0 and would_go_negative is false; in
\* safe mode a fund whose amount would overdraw the remaining balance
\* receives exactly the remaining balance, or, when the remaining balance is
\* 0 or less, is skipped with reason "Insufficient balance (safe mode)" and
\* keeps its month_amount.
C4_SafeModeNeverNegative ==
    [][ (ApplyDone' /\ last'.safe_mode) =>
        LET steps == last'.steps
        IN  /\ last'.balance_before >= 0 =>
                  /\ \A i \in DOMAIN steps :
                        steps[i].remaining_before - steps[i].amount >= 0
                  /\ last'.balance_after >= 0
                  /\ ~last'.would_go_negative
            /\ \A i \in DOMAIN steps :
                  LET f == steps[i].fund_id
                      remaining == steps[i].remaining_before
                  IN  (steps[i].wanted # <<>> /\ remaining - steps[i].wanted[1] < 0) =>
                          IF remaining > 0
                          THEN /\ AppliedFor(last', f, remaining)
                               /\ fund'[f].month_amount = fund[f].month_amount + remaining
                          ELSE /\ SkippedFor(last', f, "Insufficient balance (safe mode)")
                               /\ ~AppliedFor(last', f, 0)
                               /\ fund'[f].month_amount = fund[f].month_amount
      ]_vars

\* a safe-mode run from a balance of 10.00: one fund is cut down to what was
\* left, the next one is skipped for lack of balance
C4_Witness ==
    /\ ApplyDone
    /\ last.safe_mode
    /\ last.balance_before > 0
    /\ last.balance_after = 0
    /\ ~last.would_go_negative
    /\ \E i, j \in DOMAIN last.steps :
          /\ i < j
          /\ last.steps[i].reason = "applied"
          /\ last.steps[i].amount = last.steps[i].remaining_before
          /\ last.steps[i].amount < last.steps[i].wanted[1]
          /\ last.steps[j].reason = "Insufficient balance (safe mode)"
          /\ last.steps[j].remaining_before = 0

\* the amounts given, earlier in the run, to funds of master m
RECURSIVE GivenBefore(_, _, _)
GivenBefore(steps, i, m) ==
    IF i <= 1 THEN 0
    ELSE GivenBefore(steps, i - 1, m)
         + (IF fund[steps[i - 1].fund_id].master_fund_id = m
            THEN steps[i - 1].amount ELSE 0)

\* C5: for a considered fund with nonzero increment and a max, B being the
\* recomputed balance of its master when the fund is considered: if
\* max - B <= 0 the fund is skipped with reason "Fund has reached maximum"
\* and keeps its month_amount; otherwise the amount considered for it before
\* the safe-mode check is min(increment, max - B), which is what it receives
\* when safe mode is off.
C5_MaxClamp ==
    [][ ApplyDone' =>
        LET steps == last'.steps
        IN  \A i \in DOMAIN steps :
              LET f == steps[i].fund_id
                  B == RecomputedBalance(Store, fund[f].master_fund_id)
                       + GivenBefore(steps, i, fund[f].master_fund_id)
                  room == fund[f].max[1] - B
                  capped == IF fund[f].increment <= room THEN fund[f].increment
                            ELSE room
              IN  (fund[f].increment # 0 /\ fund[f].max # <<>>) =>
                      IF room <= 0
                      THEN /\ SkippedFor(last', f, "Fund has reached maximum")
                           /\ fund'[f].month_amount = fund[f].month_amount
                      ELSE /\ steps[i].wanted = <<capped>>
                           /\ ~last'.safe_mode =>
                                 /\ AppliedFor(last', f, capped)
                                 /\ fund'[f].month_amount = fund[f].month_amount + capped
      ]_vars

\* a run over three funds of one master, each with a max: the first receives
\* an amount, which leaves the second less room than its increment, and the
\* third finds the master at its maximum
C5_Witness ==
    /\ ApplyDone
    /\ ~last.safe_mode
    /\ Len(last.steps) = 3
    /\ \A i \in DOMAIN last.steps :
          /\ fund[last.steps[i].fund_id].master_fund_id
                = fund[last.steps[1].fund_id].master_fund_id
          /\ fund[last.steps[i].fund_id].max # <<>>
    /\ last.steps[1].amount > 0
    /\ last.steps[2].amount > 0
    /\ last.steps[2].amount < fund[last.steps[2].fund_id].increment
    /\ last.steps[3].reason = "Fund has reached maximum"

-----------------------------------------------------------------------------
(* Specification SpecAccum: a fund carried from month to month by the copy *)

\* the increments offered for the funds created in month P1
Increments == {1, 100}

CreateFirstFund ==
    /\ Len(budget) < MaxBudgets - 2
    /\ \E c \in Increments :
          create_fund(1, "Car", <<1>>, c, 0, <<>>, P1.month, P1.year, 0)

CopyNextMonth ==
    \E target \in {P2, P3} :
        LET prev == resolve_source(target.month, target.year, <<>>, <<>>)
        IN  /\ Len(budget) + Cardinality(BudgetsOf(Store, 1, prev.month, prev.year))
                  <= MaxBudgets
            /\ copy_budgets_from_previous_month(1, target.month, target.year,
                                                <<>>, <<>>)

ApplyMonth ==
    /\ runs < MaxRuns
    /\ \E p \in Periods, safe_mode \in BOOLEAN :
          apply_fund_increments(1, p.month, p.year, safe_mode)

NextAccum ==
    \/ CreateFirstFund
    \/ CopyNextMonth
    \/ ApplyMonth

SpecAccum == InitCopy /\ [][NextAccum]_vars

-----------------------------------------------------------------------------
(* Properties of the accumulation across months (SpecAccum) *)

MonthsInOrder == <<P1, P2, P3>>

\* the store s holds exactly k Fund rows, one in each of the first k months,
\* all of user 1 with increment c and no max, on one master, with no
\* transaction; the rows of the months before the k-th hold c, and the row of
\* the k-th month holds c once its run is done and 0 before
Chain(s, k, c, done) ==
    /\ Cardinality(DOMAIN s.fund) = k
    /\ DOMAIN s.txn = {}
    /\ \A i \in 1 .. k :
          \E f \in DOMAIN s.fund :
              /\ s.budget[f].user_id = 1
              /\ s.budget[f].enable
              /\ s.budget[f].month = MonthsInOrder[i].month
              /\ s.budget[f].year = MonthsInOrder[i].year
              /\ s.fund[f].increment = c
              /\ s.fund[f].max = <<>>
              /\ s.fund[f].month_amount = IF i < k \/ done THEN c ELSE 0
    /\ \A f, g \in DOMAIN s.fund : s.fund[f].master_fund_id = s.fund[g].master_fund_id

\* C11: a fund created in month 1 with increment c > 0, no max and
\* month_amount 0, and no transaction; each month the increments are applied
\* with safe mode off and the month is then copied into the next: after the
\* run of month k each of the k Fund rows holds c, all are on one master, and
\* the recomputed balance of the master is k * c.
C11_BalanceAccumulatesAcrossMonths ==
    [][ \A k \in 1 .. Len(MonthsInOrder), c \in Increments :
          /\ ( /\ DOMAIN fund = {}
               /\ last'.op = "create_fund" /\ last'.ok
               /\ fund'[last'.budget_id].increment = c )
             => Chain(Store', 1, c, FALSE)
          /\ ( /\ Chain(Store, k, c, FALSE)
               /\ ApplyDone' /\ ~last'.safe_mode
               /\ last'.month = MonthsInOrder[k].month
               /\ last'.year = MonthsInOrder[k].year )
             => /\ Chain(Store', k, c, TRUE)
                /\ \A f \in DOMAIN fund' :
                      RecomputedBalance(Store', fund'[f].master_fund_id) = k * c
          /\ ( /\ Chain(Store, k, c, TRUE)
               /\ k < Len(MonthsInOrder)
               /\ CopyDone' /\ last'.ok
               /\ last'.target_month = MonthsInOrder[k + 1].month
               /\ last'.target_year = MonthsInOrder[k + 1].year )
             => Chain(Store', k + 1, c, FALSE)
      ]_vars

\* after the run of the second month: two rows holding 100 each, balance 200
C11_Witness ==
    /\ ApplyDone
    /\ ~last.safe_mode
    /\ last.month = P2.month /\ last.year = P2.year
    /\ Chain(Store, 2, 100, TRUE)
    /\ \A f \in DOMAIN fund : RecomputedBalance(Store, fund[f].master_fund_id) = 200
    /\ runs = 2

-----------------------------------------------------------------------------
(* crud/budget/master_fund_operations.py: unlink_fund_and_split_master *)

\* the row of the fund joined with its master and its budget, if any
fund_data_found(s, fund_id) ==
    /\ fund_id \in DOMAIN s.fund
    /\ fund_id \in DOMAIN s.budget
    /\ s.fund[fund_id].master_fund_id \in DOMAIN s.fund_masters

\* the two checks made before anything is written
unlink_check(s, fund_id, keep_amount) ==
    IF ~fund_data_found(s, fund_id) THEN "not found"
    ELSE IF keep_amount > s.fund_masters[s.fund[fund_id].master_fund_id].total_amount
    THEN "exceeds master balance"
    ELSE "none"

\* a split that took every fund of the old master along
unlink_result_whole_master(s, new_master_id, fund_id, keep_amount) ==
    LET old_master_id == s.fund[fund_id].master_fund_id
        old_total == s.fund_masters[old_master_id].total_amount - keep_amount
    IN  [s |-> [s EXCEPT
                   !.fund_masters =
                       Put([s.fund_masters EXCEPT ![old_master_id].total_amount = old_total],
                           new_master_id, MasterRow(s.budget[fund_id].name, keep_amount)),
                   !.fund = [f \in DOMAIN s.fund |->
                                IF s.fund[f].master_fund_id = old_master_id
                                THEN [s.fund[f] EXCEPT !.master_fund_id = new_master_id]
                                ELSE s.fund[f]]],
         response |-> [fund_id |-> fund_id,
                       new_master_id |-> new_master_id,
                       new_master_balance |-> keep_amount,
                       old_master_id |-> old_master_id,
                       old_master_balance |-> old_total]]

\* what the call commits and returns once the checks have passed; new_master_id
\* is the id the flush gives the new master
unlink_result(s, new_master_id, fund_id, keep_amount) ==
    LET old_master_id == s.fund[fund_id].master_fund_id
        old_total == s.fund_masters[old_master_id].total_amount - keep_amount
    IN  [s |-> [s EXCEPT
                   !.fund_masters =
                       Put([s.fund_masters EXCEPT ![old_master_id].total_amount = old_total],
                           new_master_id, MasterRow(s.budget[fund_id].name, keep_amount)),
                   !.fund[fund_id].master_fund_id = new_master_id],
         response |-> [fund_id |-> fund_id,
                       new_master_id |-> new_master_id,
                       new_master_balance |-> keep_amount,
                       old_master_id |-> old_master_id,
                       old_master_balance |-> old_total]]

\* expire_on_commit: the session expires its objects at commit, as the session
\* get_session creates does; the response then reads new_master.id and
\* old_master.total_amount from expired objects, which an AsyncSession cannot
\* reload outside a greenlet
unlink_fund_and_split_master(fund_id, keep_amount, expire_on_commit) ==
    LET request == [op |-> "unlink_fund_and_split_master", fund_id |-> fund_id,
                    keep_amount |-> keep_amount]
        error == unlink_check(Store, fund_id, keep_amount)
    IN  IF error # "none"
        THEN /\ UNCHANGED <<tables, runs, sessions>>
             /\ last' = request @@ [ok |-> FALSE, error |-> error, committed |-> FALSE]
        ELSE \E result \in {unlink_result(Store, next_master_id, fund_id, keep_amount)} :
                /\ fund' = result.s.fund
                /\ fund_masters' = result.s.fund_masters
                /\ next_master_id' = next_master_id + 1
                /\ UNCHANGED <<budget, income, expense, txn, line_item,
                               next_line_item_id, runs, sessions>>
                /\ last' = IF expire_on_commit
                           THEN request @@ [ok |-> FALSE, error |-> "MissingGreenlet",
                                            committed |-> TRUE]
                           ELSE request @@ result.response
                                        @@ [ok |-> TRUE, committed |-> TRUE]

-----------------------------------------------------------------------------
(* crud/budget/master_fund_orphaned.py *)

\* the Fund rows of a master whose budget is of the month
funds_of_master_in_month(s, master_fund_id, month, year) ==
    {f \in DOMAIN s.fund \cap DOMAIN s.budget :
        /\ s.fund[f].master_fund_id = master_fund_id
        /\ s.budget[f].month = month
        /\ s.budget[f].year = year}

\* ORDER BY Budget.year DESC, Budget.month DESC LIMIT 1: the rows the query
\* may return, none when the master has no fund
last_funds(s, master_fund_id) ==
    LET rows == {f \in DOMAIN s.fund \cap DOMAIN s.budget :
                    s.fund[f].master_fund_id = master_fund_id}
    IN  {f \in rows :
            \A g \in rows :
                \/ s.budget[g].year < s.budget[f].year
                \/ /\ s.budget[g].year = s.budget[f].year
                   /\ s.budget[g].month <= s.budget[f].month}

\* the orphaned masters, as a table master id -> entry
get_orphaned_fund_masters(s, user_id, month, year) ==
    LET all_masters ==
            {m \in DOMAIN s.fund_masters :
                /\ \E f \in DOMAIN s.fund \cap DOMAIN s.budget :
                      /\ s.fund[f].master_fund_id = m
                      /\ s.budget[f].user_id = user_id
                /\ s.fund_masters[m].total_amount > 0}
    IN  [m \in {a \in all_masters :
                   funds_of_master_in_month(s, a, month, year) = {}} |->
            [master_id |-> m, balance |-> s.fund_masters[m].total_amount]]

query_get_orphaned_fund_masters(user_id, month, year) ==
    /\ UNCHANGED <<tables, runs, sessions>>
    /\ last' = [op |-> "get_orphaned_fund_masters", user_id |-> user_id,
                month |-> month, year |-> year, ok |-> TRUE,
                result |-> get_orphaned_fund_masters(Store, user_id, month, year)]

discontinue_check_master_only(s, master_fund_id, month, year) ==
    IF master_fund_id \notin DOMAIN s.fund_masters THEN "not found"
    ELSE "none"

\* the two checks made before anything is written
discontinue_check(s, master_fund_id, month, year) ==
    IF master_fund_id \notin DOMAIN s.fund_masters THEN "not found"
    ELSE IF funds_of_master_in_month(s, master_fund_id, month, year) # {}
    THEN "Fund already exists"
    ELSE "none"

\* withdrawal_amount = -master.total_amount
withdrawal_amount(s, master_fund_id) ==
    0 - s.fund_masters[master_fund_id].total_amount

\* expire_on_commit: the commit made by create_budget expires `master`, and
\* master.total_amount then cannot be reloaded: the Budget row stays alone
discontinue_fund_master(master_fund_id, month, year, user_id, expire_on_commit) ==
    LET request == [op |-> "discontinue_fund_master",
                    master_fund_id |-> master_fund_id, month |-> month,
                    year |-> year, user_id |-> user_id]
        error == discontinue_check(Store, master_fund_id, month, year)
        budget_id == Len(budget) + 1
    IN  IF error # "none"
        THEN /\ UNCHANGED <<tables, runs, sessions>>
             /\ last' = request @@ [ok |-> FALSE, error |-> error]
        ELSE \E last_fund \in IF last_funds(Store, master_fund_id) = {} THEN {0}
                              ELSE last_funds(Store, master_fund_id) :
             LET last_fund_name == IF last_fund = 0 THEN "Discontinued Fund"
                                   ELSE budget[last_fund].name
                 withdrawal == withdrawal_amount(Store, master_fund_id)
             IN  /\ budget' = create_budget(user_id, last_fund_name, month, year)
                 /\ UNCHANGED <<income, expense, next_master_id, txn, line_item,
                                next_line_item_id, runs, sessions>>
                 /\ IF expire_on_commit
                    THEN /\ UNCHANGED <<fund, fund_masters>>
                         /\ last' = request @@ [ok |-> FALSE,
                                                error |-> "MissingGreenlet"]
                    ELSE /\ fund' = Put(fund, budget_id,
                                        FundRow(999, 0, <<>>, withdrawal,
                                                master_fund_id))
                         /\ fund_masters' =
                               [fund_masters EXCEPT ![master_fund_id].total_amount = 0]
                         /\ last' = request @@
                                    [ok |-> TRUE, master_id |-> master_fund_id,
                                     budget_id |-> budget_id,
                                     withdrawal_amount |-> withdrawal]

-----------------------------------------------------------------------------
(* Specification SpecMaster: unlinking, discontinuing and listing masters *)

\* user 1 in month P1: a fund "Car" created with month_amount 3.00 that has
\* spent 1.00, and a fund "Trip" created with month_amount 0
InitMaster ==
    /\ budget = << BudgetRow(1, "Car", P1, TRUE), BudgetRow(1, "Trip", P1, TRUE) >>
    /\ income = EmptyTable
    /\ expense = EmptyTable
    /\ fund = (1 :> FundRow(1, 8, <<>>, 3, 1)) @@ (2 :> FundRow(2, 5, <<>>, 0, 2))
    /\ fund_masters = (1 :> MasterRow("Car", 0)) @@ (2 :> MasterRow("Trip", 0))
    /\ next_master_id = 3
    /\ txn = << [TxnRow(-1, MonthEnd(P1.year, P1.month)) EXCEPT !.budget_id = 1] >>
    /\ line_item = EmptyTable
    /\ next_line_item_id = 1
    /\ runs = 0
    /\ sessions = NoSessions
    /\ last = [op |-> "none", ok |-> TRUE]

\* the amounts offered to keep with an unlinked fund
KeepAmounts == {0, 2, 9}

ApplyMaster ==
    /\ runs < MaxRuns
    /\ \E safe_mode \in BOOLEAN :
          apply_fund_increments(1, P1.month, P1.year, safe_mode)

CombineMasters ==
    \/ combine_fund_masters(2, 1)
    \/ combine_fund_masters(1, 2)

UnlinkFund ==
    /\ next_master_id < MaxBudgets
    /\ \E fund_id \in {1, 2}, keep_amount \in KeepAmounts,
          expire_on_commit \in BOOLEAN :
          unlink_fund_and_split_master(fund_id, keep_amount, expire_on_commit)

\* the withdrawals offered: master, month
DiscontinueInputs == { <<1, P2>>, <<2, P2>>, <<1, P1>>, <<9, P2>> }

DiscontinueMaster ==
    /\ Len(budget) < MaxBudgets - 1
    /\ \E input \in DiscontinueInputs, expire_on_commit \in BOOLEAN :
          discontinue_fund_master(input[1], input[2].month, input[2].year, 1,
                                  expire_on_commit)

\* the listings offered: user, month
OrphanInputs == { <<1, P1>>, <<1, P2>>, <<2, P2>> }

QueryOrphans ==
    \E input \in OrphanInputs :
        query_get_orphaned_fund_masters(input[1], input[2].month, input[2].year)

NextMaster ==
    \/ ApplyMaster
    \/ CombineMasters
    \/ UnlinkFund
    \/ DiscontinueMaster
    \/ QueryOrphans

SpecMaster == InitMaster /\ [][NextMaster]_vars

-----------------------------------------------------------------------------
(* Properties of the operations on masters (SpecMaster) *)

UnlinkDone == last.op = "unlink_fund_and_split_master"

\* C12: unlink_fund_and_split_master(fund, keep_amount) on an existing fund
\* fails, leaving every row unchanged and creating no master, exactly when
\* keep_amount exceeds the recomputed balance of the fund's master; for every
\* keep_amount up to that balance its changes are committed.
C12_UnlinkRefusedExactlyAboveBalance ==
    [][ (UnlinkDone' /\ last'.fund_id \in DOMAIN fund) =>
        LET B == RecomputedBalance(Store, fund[last'.fund_id].master_fund_id)
        IN  IF last'.keep_amount > B
            THEN /\ ~last'.ok
                 /\ ~last'.committed
                 /\ UNCHANGED tables
            ELSE /\ last'.committed
                 /\ fund'[last'.fund_id].master_fund_id \notin DOMAIN fund_masters
      ]_vars

\* C13: after a successful unlink_fund_and_split_master(fund, keep_amount)
\* the fund is on a brand-new master whose recomputed balance is keep_amount,
\* the recomputed balance of the old master is its balance before minus
\* keep_amount, and the two are the new_master_balance and old_master_balance
\* returned.
C13_UnlinkSplitsBalance ==
    [][ (UnlinkDone' /\ last'.ok) =>
        LET old == fund[last'.fund_id].master_fund_id
            new == fund'[last'.fund_id].master_fund_id
            old_before == RecomputedBalance(Store, old)
        IN  /\ new \notin DOMAIN fund_masters
            /\ new \in DOMAIN fund_masters'
            /\ RecomputedBalance(Store', new) = last'.keep_amount
            /\ RecomputedBalance(Store', old) = old_before - last'.keep_amount
            /\ last'.new_master_balance = last'.keep_amount
            /\ last'.old_master_balance = old_before - last'.keep_amount
      ]_vars

DiscontinueDone == last.op = "discontinue_fund_master"

\* C14: after a successful discontinue_fund_master(master, month, year)
\* exactly one new Budget+Fund row exists, on that master and in that month,
\* with increment 0 and month_amount the negation of the recomputed balance
\* of the master before the call; withdrawal_amount is that month_amount and
\* the recomputed balance of the master is then 0.
C14_DiscontinueWithdrawsBalance ==
    [][ (DiscontinueDone' /\ last'.ok) =>
        LET master == last'.master_fund_id
            b == last'.budget_id
        IN  /\ DOMAIN budget' = DOMAIN budget \cup {b}
            /\ b \notin DOMAIN budget
            /\ DOMAIN fund' = DOMAIN fund \cup {b}
            /\ budget'[b].month = last'.month
            /\ budget'[b].year = last'.year
            /\ fund'[b].master_fund_id = master
            /\ fund'[b].increment = 0
            /\ fund'[b].month_amount = 0 - RecomputedBalance(Store, master)
            /\ last'.withdrawal_amount = fund'[b].month_amount
            /\ RecomputedBalance(Store', master) = 0
      ]_vars

\* C15: get_orphaned_fund_masters(user, month, year) returns exactly the
\* masters with a Fund row of the user whose recomputed balance is not zero
\* and that have no Fund row in (month, year), each with its recomputed
\* balance.
C15_OrphansByRecomputedBalance ==
    last.op = "get_orphaned_fund_masters" =>
        LET orphans ==
              {m \in DOMAIN fund_masters :
                  /\ \E f \in DOMAIN fund :
                        fund[f].master_fund_id = m /\ budget[f].user_id = last.user_id
                  /\ RecomputedBalance(Store, m) # 0
                  /\ ~\E f \in DOMAIN fund :
                        /\ fund[f].master_fund_id = m
                        /\ budget[f].month = last.month
                        /\ budget[f].year = last.year}
        IN  /\ DOMAIN last.result = orphans
            /\ \A m \in DOMAIN last.result :
                  last.result[m].balance = RecomputedBalance(Store, m)

-----------------------------------------------------------------------------
(* Properties of transaction breakdowns and assignment (SpecAgg) *)

BreakdownDone == last.op = "create_transaction_breakdown"

\* the line items a step has added
Persisted == {l \in DOMAIN line_item' : l \notin DOMAIN line_item}

\* C16: create_transaction_breakdown on an existing transaction succeeds
\* exactly when the absolute difference between the sum of the given
\* line-item amounts and the amount of the transaction is at most 0.01; when
\* it fails (out of tolerance, or transaction not found) no line item is
\* persisted and is_split is unchanged; when it succeeds all given line items
\* are persisted and is_split becomes true.
C16_BreakdownWithinToleranceIsAtomic ==
    [][ BreakdownDone' =>
        LET t == last'.transaction_id
            items == last'.items
        IN  /\ t \in DOMAIN txn =>
                  (last'.ok <=> Abs(SumSeq(items) - txn[t].amount)
                                  <= LINE_ITEM_AMOUNT_TOLERANCE)
            /\ t \notin DOMAIN txn => ~last'.ok
            /\ ~last'.ok => /\ line_item' = line_item
                            /\ txn' = txn
            /\ last'.ok =>
                  /\ Cardinality(Persisted) = Len(items)
                  /\ \A i \in 1 .. Len(items) :
                        \E l \in Persisted :
                           /\ line_item'[l].parent_transaction_id = t
                           /\ line_item'[l].amount = items[i].amount
                           /\ line_item'[l].budget_id = items[i].budget_id
                  /\ \A l \in DOMAIN line_item : line_item'[l] = line_item[l]
                  /\ txn'[t].is_split
      ]_vars

\* the requests that assign: transactions and line items to budgets, and the
\* breakdowns that create the line items
NextAssign ==
    \/ AssignTransaction
    \/ CreateBreakdown
    \/ UpdateLineItem

SpecAssign == InitAgg /\ [][NextAssign]_vars

\* 1 when budget b is a fund on master m, 0 otherwise
OnMaster(b, m) == IF b \in DOMAIN fund /\ fund[b].master_fund_id = m THEN 1 ELSE 0

\* by how much a step changes the recomputed balance of master m
BalanceStep(m) ==
    IF \E f \in DOMAIN fund : fund[f].master_fund_id = m
    THEN RecomputedBalance(Store', m) - RecomputedBalance(Store, m)
    ELSE RecomputedBalance(Store', m)

AssignDone == last.op = "assign_transaction_to_budget" /\ last.ok

\* update_line_item used to assign: a budget is given and no amount
LineItemAssignDone ==
    /\ last.op = "update_line_item"
    /\ last.ok
    /\ last.amount = <<>>
    /\ last.budget_id # 0

-----------------------------------------------------------------------------
(* The stored total of a master (SpecMaster) *)

\* the store s with every FundMaster.total_amount set to the recomputed
\* balance of its master: it differs from s in the stored totals only
Recached(s) ==
    [s EXCEPT !.fund_masters =
        [m \in DOMAIN s.fund_masters |->
            [s.fund_masters[m] EXCEPT !.total_amount = RecomputedBalance(s, m)]]]

SameUnlink(a, b) ==
    \A fund_id \in DOMAIN a.fund, keep_amount \in KeepAmounts :
        /\ unlink_check(a, fund_id, keep_amount) = unlink_check(b, fund_id, keep_amount)
        /\ unlink_check(a, fund_id, keep_amount) = "none" =>
              LET ra == unlink_result(a, next_master_id, fund_id, keep_amount)
                  rb == unlink_result(b, next_master_id, fund_id, keep_amount)
              IN  ra.response = rb.response /\ ra.s.fund = rb.s.fund

SameDiscontinue(a, b) ==
    \A d \in DiscontinueInputs :
        /\ discontinue_check(a, d[1], d[2].month, d[2].year)
              = discontinue_check(b, d[1], d[2].month, d[2].year)
        /\ discontinue_check(a, d[1], d[2].month, d[2].year) = "none" =>
              withdrawal_amount(a, d[1]) = withdrawal_amount(b, d[1])

SameOrphans(a, b) ==
    \A q \in OrphanInputs :
        get_orphaned_fund_masters(a, q[1], q[2].month, q[2].year)
            = get_orphaned_fund_masters(b, q[1], q[2].month, q[2].year)

SameCombine(a, b) ==
    \A source, target \in DOMAIN a.fund :
        a.fund[source].master_fund_id # a.fund[target].master_fund_id =>
            combined_balance(a, a.fund[source].master_fund_id,
                             a.fund[target].master_fund_id)
                = combined_balance(b, b.fund[source].master_fund_id,
                                   b.fund[target].master_fund_id)

SameApply(a, b) ==
    \A safe_mode \in BOOLEAN :
        \A funds \in funds_query(a, 1, P1.month, P1.year) :
            LET ra == run_apply_fund_increments(a, 1, P1.month, P1.year, safe_mode, funds)
                rb == run_apply_fund_increments(b, 1, P1.month, P1.year, safe_mode, funds)
            IN  /\ ra.applied_funds = rb.applied_funds
                /\ ra.skipped_funds = rb.skipped_funds
                /\ ra.s.fund = rb.s.fund

\* C18: the stored FundMaster.total_amount is never trusted: for
\* unlink_fund_and_split_master, discontinue_fund_master,
\* get_orphaned_fund_masters, combine_fund_masters and apply_fund_increments
\* two stores that differ only in the stored totals give the same outcome,
\* the same returned balances and the same written Fund rows.
C18_StoredTotalNeverTrusted ==
    /\ SameUnlink(Store, Recached(Store))
    /\ SameDiscontinue(Store, Recached(Store))
    /\ SameOrphans(Store, Recached(Store))
    /\ SameCombine(Store, Recached(Store))
    /\ SameApply(Store, Recached(Store))

-----------------------------------------------------------------------------
(* apply_fund_increments, one database statement at a time.

   get_session opens AsyncSession(engine) on an engine created without an
   isolation level, so each run is one READ COMMITTED transaction: every
   SELECT reads the rows committed at that moment and the writes of its own
   transaction, an UPDATE locks its row until the commit and waits for a lock
   another transaction holds, and the code takes no lock of its own
   (no with_for_update, no SERIALIZABLE).  The ORM sends
   `fund_obj.month_amount += amount_to_add` as
   UPDATE fund SET month_amount = <the value computed in Python>, flushed
   before the next statement of the session. *)

\* the store as the transaction of session q sees it: the committed rows
\* with its own writes over them
SessionView(s, q) ==
    [s EXCEPT
        !.fund = [f \in DOMAIN s.fund |->
                     IF f \in DOMAIN q.written_funds
                     THEN [s.fund[f] EXCEPT !.month_amount = q.written_funds[f]]
                     ELSE s.fund[f]],
        !.fund_masters = [m \in DOMAIN s.fund_masters |->
                     IF m \in DOMAIN q.written_masters
                     THEN [s.fund_masters[m] EXCEPT
                              !.total_amount = q.written_masters[m]]
                     ELSE s.fund_masters[m]]]

Applying(p) == sessions[p].op = "apply_fund_increments"

\* the rows another open transaction has updated and not yet committed
LockedFunds(p) ==
    UNION {DOMAIN sessions[q].written_funds : q \in {r \in Sessions \ {p} : Applying(r)}}

\* lines 51-108: get_budgets and the funds query
begin_apply_fund_increments(p, user_id, month, year, safe_mode) ==
    /\ sessions[p].op = "idle"
    /\ \E funds \in funds_query(Store, user_id, month, year) :
          sessions' = [sessions EXCEPT ![p] =
              [op |-> "apply_fund_increments",
               user_id |-> user_id, month |-> month, year |-> year,
               safe_mode |-> safe_mode,
               funds |-> funds, i |-> 1,
               balance_before |-> balance_before(Store, user_id, month, year),
               run |-> [applied_funds |-> <<>>, skipped_funds |-> <<>>,
                        total_applied |-> 0,
                        remaining_balance |->
                            balance_before(Store, user_id, month, year),
                        steps |-> <<>>],
               pending |-> <<>>,
               written_funds |-> <<>>, written_masters |-> <<>>]]
    /\ UNCHANGED <<tables, runs, last>>

\* lines 110-158 for the next row: the checks, SELECT Fund, and the new
\* month_amount computed in Python from the value read
load_fund(p) ==
    /\ Applying(p)
    /\ sessions[p].pending = <<>>
    /\ sessions[p].i <= Len(sessions[p].funds)
    /\ LET q == sessions[p]
           fund_id == q.funds[q.i]
           view == SessionView(Store, q)
       IN  \E r \in {allocate([s |-> view] @@ q.run, fund_id, q.safe_mode)} :
              LET run == [applied_funds |-> r.applied_funds,
                          skipped_funds |-> r.skipped_funds,
                          total_applied |-> r.total_applied,
                          remaining_balance |-> r.remaining_balance,
                          steps |-> r.steps]
              IN  IF Len(r.applied_funds) = Len(q.run.applied_funds)
                  THEN sessions' = [sessions EXCEPT ![p].run = run, ![p].i = q.i + 1]
                  ELSE sessions' = [sessions EXCEPT
                          ![p].run = run,
                          ![p].pending =
                              <<[fund_id |-> fund_id,
                                 month_amount |-> r.s.fund[fund_id].month_amount,
                                 amount |-> r.total_applied - q.run.total_applied]>>]
    /\ UNCHANGED <<tables, runs, last>>

\* lines 160-166: the autoflush before SELECT FundMaster sends the UPDATE of
\* the Fund row, which waits while another transaction holds the row; the
\* master is then read and its new total computed in Python
flush_fund(p) ==
    /\ Applying(p)
    /\ sessions[p].pending # <<>>
    /\ sessions[p].pending[1].fund_id \notin LockedFunds(p)
    /\ LET q == sessions[p]
           w == q.pending[1]
           master_id == fund[w.fund_id].master_fund_id
           total == SessionView(Store, q).fund_masters[master_id].total_amount
       IN  sessions' = [sessions EXCEPT
               ![p].written_funds = Put(q.written_funds, w.fund_id, w.month_amount),
               ![p].written_masters = Put(q.written_masters, master_id,
                                          total + w.amount),
               ![p].pending = <<>>,
               ![p].i = q.i + 1]
    /\ UNCHANGED <<tables, runs, last>>

\* lines 180-189: the commit and the response
commit_apply_fund_increments(p) ==
    /\ Applying(p)
    /\ sessions[p].pending = <<>>
    /\ sessions[p].i > Len(sessions[p].funds)
    /\ LET q == sessions[p]
           committed == SessionView(Store, q)
       IN  /\ fund' = committed.fund
           /\ fund_masters' = committed.fund_masters
           /\ runs' = runs + 1
           /\ sessions' = [sessions EXCEPT ![p] =
                  [op |-> "closed", request |-> "apply_fund_increments",
                   safe_mode |-> q.safe_mode,
                   balance_before |-> q.balance_before,
                   total_applied |-> q.run.total_applied]]
           /\ last' = [op |-> "apply_fund_increments", ok |-> TRUE,
                       user_id |-> q.user_id, month |-> q.month, year |-> q.year,
                       safe_mode |-> q.safe_mode,
                       applied_funds |-> q.run.applied_funds,
                       skipped_funds |-> q.run.skipped_funds,
                       balance_before |-> q.balance_before,
                       balance_after |-> q.run.remaining_balance,
                       total_applied |-> q.run.total_applied,
                       would_go_negative |-> q.run.remaining_balance < 0,
                       steps |-> q.run.steps]
    /\ UNCHANGED <<budget, income, expense, next_master_id, txn, line_item,
                   next_line_item_id>>

-----------------------------------------------------------------------------
(* Specification SpecConc: two allocation runs of one month at once *)

\* user 1 in month P1: an income "Pay" that has received 10.00, a fund "Car"
\* (increment 8.00, no max) and a fund "Trip" (increment 5.00, max 5.00)
ConcStore ==
    [budget |-> <<BudgetRow(1, "Pay", P1, TRUE), BudgetRow(1, "Car", P1, TRUE),
                  BudgetRow(1, "Trip", P1, TRUE)>>,
     income |-> (1 :> IncomeRow(TRUE, 10)),
     expense |-> EmptyTable,
     fund |-> (2 :> FundRow(1, 8, <<>>, 0, 1)) @@ (3 :> FundRow(2, 5, <<5>>, 0, 2)),
     fund_masters |-> (1 :> MasterRow("Car", 0)) @@ (2 :> MasterRow("Trip", 0)),
     txn |-> <<[TxnRow(10, MonthStart(P1.year, P1.month)) EXCEPT !.budget_id = 1]>>,
     line_item |-> EmptyTable]

InitConc ==
    /\ budget = ConcStore.budget
    /\ income = ConcStore.income
    /\ expense = ConcStore.expense
    /\ fund = ConcStore.fund
    /\ fund_masters = ConcStore.fund_masters
    /\ next_master_id = 3
    /\ txn = ConcStore.txn
    /\ line_item = ConcStore.line_item
    /\ next_line_item_id = 1
    /\ runs = 0
    /\ sessions = NoSessions
    /\ last = [op |-> "none", ok |-> TRUE]

BeginApply ==
    \E p \in Sessions, safe_mode \in BOOLEAN :
        begin_apply_fund_increments(p, 1, P1.month, P1.year, safe_mode)

LoadFund == \E p \in Sessions : load_fund(p)

FlushFund == \E p \in Sessions : flush_fund(p)

CommitApply == \E p \in Sessions : commit_apply_fund_increments(p)

NextConc ==
    \/ BeginApply
    \/ LoadFund
    \/ FlushFund
    \/ CommitApply

SpecConc == InitConc /\ [][NextConc]_vars

-----------------------------------------------------------------------------
(* Properties of concurrent runs (SpecConc) *)

\* the store after the runs of sessions p and then q, one after the other
SerialRuns(s, p, q) ==
    LET first == run_apply_fund_increments(
                     s, 1, P1.month, P1.year, sessions[p].safe_mode,
                     CHOOSE funds \in funds_query(s, 1, P1.month, P1.year) : TRUE)
    IN  run_apply_fund_increments(
            first.s, 1, P1.month, P1.year, sessions[q].safe_mode,
            CHOOSE funds \in funds_query(first.s, 1, P1.month, P1.year) : TRUE).s

BothClosed == \A p \in Sessions : sessions[p].op = "closed"

\* C19: two concurrent apply_fund_increments runs of the same (user, month,
\* year) are serialized: once both have committed every month_amount is what
\* running the two one after the other gives, in safe mode the two together
\* have not allocated more than the balance before them when it is >= 0, and
\* the master of a capped fund is not past its max.
C19_ConcurrentRunsSerialized ==
    BothClosed =>
        /\ \/ fund = SerialRuns(ConcStore, 1, 2).fund
           \/ fund = SerialRuns(ConcStore, 2, 1).fund
        /\ (/\ \A p \in Sessions : sessions[p].safe_mode
            /\ balance_before(ConcStore, 1, P1.month, P1.year) >= 0)
           => sessions[1].total_applied + sessions[2].total_applied
                  <= balance_before(ConcStore, 1, P1.month, P1.year)
        /\ \A f \in DOMAIN fund :
              fund[f].max # <<>> =>
                  RecomputedBalance(Store, fund[f].master_fund_id) <= fund[f].max[1]

-----------------------------------------------------------------------------
(* combine_fund_masters, one commit at a time
   (crud/budget/master_fund_operations.py, lines 47-119) *)

Combining(p) == sessions[p].op = "combine_fund_masters"

\* lines 47-103: the checks, the new total of the target master, the Fund
\* rows of the source master repointed, and the first commit
combine_first_commit(p, source_fund_id, target_fund_id) ==
    LET found(f) == fund_data_found(Store, f)
        request == [op |-> "combine_fund_masters",
                    source_fund_id |-> source_fund_id,
                    target_fund_id |-> target_fund_id]
        failed(msg) == /\ UNCHANGED <<tables, runs, sessions>>
                       /\ last' = request @@ [ok |-> FALSE, error |-> msg]
    IN  /\ sessions[p].op = "idle"
        /\ IF ~found(source_fund_id) THEN failed("Source fund not found")
           ELSE IF ~found(target_fund_id) THEN failed("Target fund not found")
           ELSE IF fund[source_fund_id].master_fund_id
                      = fund[target_fund_id].master_fund_id
           THEN failed("Funds are already in the same master fund family")
           ELSE
             LET source_master_id == fund[source_fund_id].master_fund_id
                 target_master_id == fund[target_fund_id].master_fund_id
                 combined == combined_balance(Store, source_master_id, target_master_id)
                 moved == funds_to_update(Store, source_fund_id)
             IN  /\ fund' = [f \in DOMAIN fund |->
                               IF f \in moved
                               THEN [fund[f] EXCEPT !.master_fund_id = target_master_id]
                               ELSE fund[f]]
                 /\ fund_masters' = [fund_masters EXCEPT
                                        ![target_master_id].total_amount = combined]
                 /\ sessions' = [sessions EXCEPT ![p] =
                        request @@ [source_master_id |-> source_master_id,
                                    target_master_id |-> target_master_id,
                                    combined_balance |-> combined,
                                    moved |-> moved]]
                 /\ UNCHANGED <<budget, income, expense, next_master_id, txn,
                                line_item, next_line_item_id, runs, last>>

\* lines 105-119: the source master is selected again and deleted, and the
\* second commit; scalar_one() raises when the row is gone, and the DELETE
\* violates the foreign key of a Fund row that references the master by then
combine_second_commit(p) ==
    /\ Combining(p)
    /\ LET q == sessions[p]
           request == [op |-> "combine_fund_masters",
                       source_fund_id |-> q.source_fund_id,
                       target_fund_id |-> q.target_fund_id]
       IN  IF q.source_master_id \notin DOMAIN fund_masters
           THEN /\ UNCHANGED <<tables, runs>>
                /\ last' = request @@ [ok |-> FALSE, error |-> "NoResultFound"]
           ELSE IF \E f \in DOMAIN fund : fund[f].master_fund_id = q.source_master_id
           THEN /\ UNCHANGED <<tables, runs>>
                /\ last' = request @@ [ok |-> FALSE, error |-> "IntegrityError"]
           ELSE /\ fund_masters' = Remove(fund_masters, q.source_master_id)
                /\ UNCHANGED <<budget, income, expense, fund, next_master_id, txn,
                               line_item, next_line_item_id, runs>>
                /\ last' = request @@
                           [ok |-> TRUE,
                            target_master_id |-> q.target_master_id,
                            deleted_master_id |-> q.source_master_id,
                            combined_balance |-> q.combined_balance,
                            funds_combined |-> Cardinality(q.moved)]
    /\ sessions' = [sessions EXCEPT ![p] = [op |-> "idle"]]

-----------------------------------------------------------------------------
(* Specification SpecCombine: combining masters while other requests run *)

CombineFirstCommit ==
    \E p \in Sessions :
        \/ combine_first_commit(p, 2, 1)
        \/ combine_first_commit(p, 1, 2)

CombineSecondCommit == \E p \in Sessions : combine_second_commit(p)

NextCombine ==
    \/ CombineFirstCommit
    \/ CombineSecondCommit
    \/ ApplyMaster
    \/ DiscontinueMaster
    \/ QueryOrphans

SpecCombine == InitMaster /\ [][NextCombine]_vars

\* C20: combine_fund_masters is all-or-nothing: no committed state, seen by
\* another request or left by a failure part-way, has the Fund rows of the
\* source master already on the target master, and the stored total of the
\* target raised, while the source master still exists.
C20_CombineAllOrNothing ==
    \A p \in Sessions :
        Combining(p) =>
            ~ /\ sessions[p].source_master_id \in DOMAIN fund_masters
              /\ \A f \in sessions[p].moved :
                    fund[f].master_fund_id = sessions[p].target_master_id
              /\ fund_masters[sessions[p].target_master_id].total_amount
                    = sessions[p].combined_balance

-----------------------------------------------------------------------------
(* Specification SpecCarry: one month of a user, then its copy *)

\* no budget yet, and two transactions of month P1 waiting to be assigned
InitCarry ==
    /\ budget = <<>>
    /\ income = EmptyTable
    /\ expense = EmptyTable
    /\ fund = EmptyTable
    /\ fund_masters = EmptyTable
    /\ next_master_id = 1
    /\ txn = <<TxnRow(10, MonthStart(P1.year, P1.month)),
               TxnRow(0 - 3, MonthEnd(P1.year, P1.month))>>
    /\ line_item = EmptyTable
    /\ next_line_item_id = 1
    /\ runs = 0
    /\ sessions = NoSessions
    /\ last = [op |-> "init"]

CarryNames == {"A", "B"}

\* categories are created in P1 until the month is copied
CreateCategory ==
    /\ Len(budget) < MaxBudgets - 2
    /\ BudgetsOf(Store, 1, P2.month, P2.year) = {}
    /\ \E name \in CarryNames :
          \/ create_income(1, name, TRUE, <<10>>, P1.month, P1.year)
          \/ create_expense(1, name, TRUE, FALSE, <<5>>, P1.month, P1.year)
          \/ create_fund(1, name, <<1>>, 4, 0, <<>>, P1.month, P1.year, 0)

CopyIntoNextMonth ==
    /\ Len(budget) + Cardinality(BudgetsOf(Store, 1, P1.month, P1.year)) <= MaxBudgets
    /\ copy_budgets_from_previous_month(1, P2.month, P2.year, <<>>, <<>>)

AssignInMonth ==
    \E t \in DOMAIN txn, b \in {0} \cup BudgetsOf(Store, 1, P1.month, P1.year) :
        assign_transaction_to_budget(t, b)

ApplyInMonth ==
    /\ runs < MaxRuns - 1
    /\ apply_fund_increments(1, P1.month, P1.year, FALSE)

NextCarry ==
    \/ CreateCategory
    \/ CopyIntoNextMonth
    \/ AssignInMonth
    \/ ApplyInMonth

SpecCarry == InitCarry /\ [][NextCarry]_vars

\* the sum of carryover over the budgets of a month, as get_budgets reports it
TotalCarryover(s, user_id, p) ==
    LET budgets_data == get_budgets(s, user_id, p.month, p.year)
    IN  SumField(budgets_data.incomes, "carryover")
        + SumField(budgets_data.expenses, "carryover")
        + SumField(budgets_data.flexibles, "carryover")
        + SumField(budgets_data.funds, "carryover")

\* the ending balance of a month: its income, expense and flexible
\* transaction sums, plus its carryover, minus the month_amount of its funds
EndingBalance(s, user_id, p) ==
    LET budgets_data == get_budgets(s, user_id, p.month, p.year)
    IN  SumField(budgets_data.incomes, "transaction_sum")
        + SumField(budgets_data.expenses, "transaction_sum")
        + SumField(budgets_data.flexibles, "transaction_sum")
        + TotalCarryover(s, user_id, p)
        - SumField(budgets_data.funds, "month_amount")

\* C21: the ending balance of a month is the carryover of the next: once the
\* budgets of P2 have been created by copying those of P1, the sum of
\* carryover over the budgets of P2 equals the ending balance of P1, after
\* any assignment of transactions and any apply_fund_increments run in P1.
C21_EndingBalanceIsNextCarryover ==
    BudgetsOf(Store, 1, P2.month, P2.year) # {} =>
        TotalCarryover(Store, 1, P2) = EndingBalance(Store, 1, P1)

\* the same over months whose budgets all have different names
C21_DistinctNames ==
    (/\ BudgetsOf(Store, 1, P2.month, P2.year) # {}
     /\ \A a, b \in BudgetsOf(Store, 1, P1.month, P1.year) :
           a # b => budget[a].name # budget[b].name)
    => TotalCarryover(Store, 1, P2) = EndingBalance(Store, 1, P1)

-----------------------------------------------------------------------------
(* crud/transaction/base.py: mark_transaction_type *)

valid_types == {"transfer", "credit_payment", "loan_payment", "None"}

mark_transaction_type(transaction_id, transaction_type, exclude) ==
    /\ IF transaction_type \notin valid_types
       THEN /\ txn' = txn
            /\ last' = [op |-> "mark_transaction_type", ok |-> FALSE,
                        transaction_id |-> transaction_id]
       ELSE IF transaction_id \notin DOMAIN txn
       THEN /\ txn' = txn
            /\ last' = [op |-> "mark_transaction_type", ok |-> FALSE,
                        transaction_id |-> transaction_id]
       ELSE /\ txn' = [txn EXCEPT ![transaction_id].transaction_type = transaction_type,
                                  ![transaction_id].exclude_from_budget = exclude]
            /\ last' = [op |-> "mark_transaction_type", ok |-> TRUE,
                        transaction_id |-> transaction_id]
    /\ UNCHANGED <<budget, income, expense, fund, fund_masters, next_master_id,
                   line_item, next_line_item_id, runs, sessions>>

MarkInputs == {"transfer", "None", "refund"}

MarkTransactionType ==
    \E t \in 1 .. Len(txn) + 1, transaction_type \in MarkInputs, exclude \in BOOLEAN :
        mark_transaction_type(t, transaction_type, exclude)

NextMark ==
    \/ AssignTransaction
    \/ CreateBreakdown
    \/ MarkTransactionType

SpecMark == InitAgg /\ [][NextMark]_vars

\* the store as the budget calculations should see it: a transaction marked
\* exclude_from_budget has no budget, and neither have its line items
WithoutExcluded(s) ==
    [s EXCEPT
       !.txn = [t \in DOMAIN s.txn |->
                   IF s.txn[t].exclude_from_budget
                   THEN [s.txn[t] EXCEPT !.budget_id = 0]
                   ELSE s.txn[t]],
       !.line_item = [l \in DOMAIN s.line_item |->
                        IF s.txn[s.line_item[l].parent_transaction_id].exclude_from_budget
                        THEN [s.line_item[l] EXCEPT !.budget_id = 0]
                        ELSE s.line_item[l]]]

\* C22: a transaction marked exclude_from_budget by mark_transaction_type
\* contributes nothing to any budget's transaction_sum, to any carryover or
\* to any fund master balance, even when it has a budget_id: every budget
\* calculation gives what it gives on the store without the marked
\* transactions' assignments.
C22_ExcludedTransactionsCountNothing ==
    /\ \A p \in Periods :
          get_all_budget_sums_with_line_items(Store, p.month, p.year)
          = get_all_budget_sums_with_line_items(WithoutExcluded(Store), p.month, p.year)
    /\ \A b \in DOMAIN budget :
          get_budget_sum_with_line_items(Store, b)
          = get_budget_sum_with_line_items(WithoutExcluded(Store), b)
    /\ \A u \in Users, p \in Periods :
          get_carryover_for_budgets(Store, u, p.month, p.year)
          = get_carryover_for_budgets(WithoutExcluded(Store), u, p.month, p.year)
    /\ \A m \in DOMAIN fund_masters :
          calculate_master_balance(Store, m)
          = calculate_master_balance(WithoutExcluded(Store), m)

-----------------------------------------------------------------------------
(* crud/budget/master_fund_orphaned.py: add_fund_to_orphaned_master *)

\* fund_name = master.name or (last_fund.name if last_fund else "Resumed Fund")
fund_name(s, master_fund_id, last_fund) ==
    IF s.fund_masters[master_fund_id].name # ""
    THEN s.fund_masters[master_fund_id].name
    ELSE IF last_fund # 0 THEN s.budget[last_fund].name
    ELSE "Resumed Fund"

\* the variant that starts the new fund with its increment as month_amount
add_fund_to_orphaned_master_seeded(master_fund_id, month, year, user_id, priority, increment, max_amount, expire_on_commit) ==
    LET request == [op |-> "add_fund_to_orphaned_master",
                    master_fund_id |-> master_fund_id, month |-> month,
                    year |-> year, user_id |-> user_id, priority |-> priority,
                    increment |-> increment, max_amount |-> max_amount]
        error == discontinue_check(Store, master_fund_id, month, year)
        budget_id == Len(budget) + 1
    IN  IF error # "none"
        THEN /\ UNCHANGED <<tables, runs, sessions>>
             /\ last' = request @@ [ok |-> FALSE, error |-> error]
        ELSE \E last_fund \in IF last_funds(Store, master_fund_id) = {} THEN {0}
                              ELSE last_funds(Store, master_fund_id) :
             /\ budget' = create_budget(
                              user_id, fund_name(Store, master_fund_id, last_fund),
                              month, year)
             /\ fund' = Put(fund, budget_id,
                            FundRow(priority, increment, max_amount, increment,
                                    master_fund_id))
             /\ UNCHANGED <<income, expense, fund_masters, next_master_id, txn,
                            line_item, next_line_item_id, runs, sessions>>
             /\ IF expire_on_commit
                THEN last' = request @@ [ok |-> FALSE, error |-> "MissingGreenlet"]
                ELSE last' = request @@
                             [ok |-> TRUE, fund_id |-> budget_id,
                              master_id |-> master_fund_id,
                              master_balance |->
                                  fund_masters[master_fund_id].total_amount]

\* expire_on_commit: the commits expire `master`, and master.total_amount in
\* the returned dict then cannot be reloaded: the call fails with both rows
\* committed
add_fund_to_orphaned_master(master_fund_id, month, year, user_id, priority, increment, max_amount, expire_on_commit) ==
    LET request == [op |-> "add_fund_to_orphaned_master",
                    master_fund_id |-> master_fund_id, month |-> month,
                    year |-> year, user_id |-> user_id, priority |-> priority,
                    increment |-> increment, max_amount |-> max_amount]
        error == discontinue_check(Store, master_fund_id, month, year)
        budget_id == Len(budget) + 1
    IN  IF error # "none"
        THEN /\ UNCHANGED <<tables, runs, sessions>>
             /\ last' = request @@ [ok |-> FALSE, error |-> error]
        ELSE \E last_fund \in IF last_funds(Store, master_fund_id) = {} THEN {0}
                              ELSE last_funds(Store, master_fund_id) :
             /\ budget' = create_budget(
                              user_id, fund_name(Store, master_fund_id, last_fund),
                              month, year)
             /\ fund' = Put(fund, budget_id,
                            FundRow(priority, increment, max_amount, 0,
                                    master_fund_id))
             /\ UNCHANGED <<income, expense, fund_masters, next_master_id, txn,
                            line_item, next_line_item_id, runs, sessions>>
             /\ IF expire_on_commit
                THEN last' = request @@ [ok |-> FALSE, error |-> "MissingGreenlet"]
                ELSE last' = request @@
                             [ok |-> TRUE, fund_id |-> budget_id,
                              master_id |-> master_fund_id,
                              master_balance |->
                                  fund_masters[master_fund_id].total_amount]

-----------------------------------------------------------------------------
(* Specification SpecVariant: the operations that create Budget rows *)

\* the funds offered to an orphaned master: master, month
AddFundInputs == { <<1, P2>>, <<1, P1>>, <<9, P2>> }

AddFundToOrphanedMaster ==
    /\ Len(budget) < MaxBudgets
    /\ \E input \in AddFundInputs, expire_on_commit \in BOOLEAN :
          add_fund_to_orphaned_master(input[1], input[2].month, input[2].year, 1,
                                      1, 4, <<>>, expire_on_commit)

DiscontinueVariant ==
    /\ Len(budget) < MaxBudgets
    /\ \E input \in AddFundInputs, expire_on_commit \in BOOLEAN :
          discontinue_fund_master(input[1], input[2].month, input[2].year, 1,
                                  expire_on_commit)

NextVariant ==
    \/ CreateIncome
    \/ CreateExpense
    \/ CreateFund
    \/ CopyBudgets
    \/ DiscontinueVariant
    \/ AddFundToOrphanedMaster

SpecVariant == InitCopy /\ [][NextVariant]_vars

\* the variant extension rows of a Budget row
Extensions(b) ==
    {v \in {"income", "expense", "fund"} :
        \/ v = "income" /\ b \in DOMAIN income
        \/ v = "expense" /\ b \in DOMAIN expense
        \/ v = "fund" /\ b \in DOMAIN fund}

\* C23: in every committed state reached by create_income, create_expense,
\* create_fund, copy_budgets_from_previous_month, discontinue_fund_master
\* and add_fund_to_orphaned_master, failed calls included, each Budget row
\* has exactly one variant extension row (Income, Expense or Fund): a call
\* that fails after inserting the Budget row leaves no Budget row behind.
C23_EveryBudgetHasOneExtension ==
    \A b \in DOMAIN budget : Cardinality(Extensions(b)) = 1

-----------------------------------------------------------------------------
(* Specification SpecRef: the operations that write Fund.master_fund_id *)

\* funds are created in P1, on a new master or on an existing one
CreateFundOnMaster ==
    /\ Len(budget) < MaxBudgets - 2
    /\ \E master_fund_id \in {0} \cup DOMAIN fund_masters :
          create_fund(1, "B", <<1>>, 4, 3, <<20>>, P1.month, P1.year, master_fund_id)

\* the combinations offered: source fund, target fund
CombinePairs == { <<1, 2>>, <<2, 1>>, <<3, 1>>, <<1, 1>> }

CombineAny ==
    \E pair \in CombinePairs : combine_fund_masters(pair[1], pair[2])

UnlinkAny ==
    /\ next_master_id < MaxBudgets
    /\ \E fund_id \in 1 .. 2, expire_on_commit \in BOOLEAN :
          unlink_fund_and_split_master(fund_id, 0, expire_on_commit)

\* master 1 is withdrawn from, or given a fund, in the month after P1
ResumeOrWithdraw ==
    /\ Len(budget) < MaxBudgets - 1
    /\ \E expire_on_commit \in BOOLEAN :
          \/ discontinue_fund_master(1, P2.month, P2.year, 1, expire_on_commit)
          \/ add_fund_to_orphaned_master(1, P2.month, P2.year, 1, 1, 4, <<>>,
                                         expire_on_commit)

NextRef ==
    \/ CreateFundOnMaster
    \/ CopyIntoNextMonth
    \/ CombineAny
    \/ UnlinkAny
    \/ ResumeOrWithdraw

SpecRef == InitCopy /\ [][NextRef]_vars

\* every Fund row references an existing FundMaster
FundsReferenceMasters(funds, masters) ==
    \A f \in DOMAIN funds : funds[f].master_fund_id \in DOMAIN masters

\* a step that deletes master m is a successful combine_fund_masters whose
\* source fund was on m, and no Fund row references m when it goes
DeletedBySourceCombine(m) ==
    /\ last'.op = "combine_fund_masters"
    /\ last'.ok
    /\ last'.deleted_master_id = m
    /\ last'.source_fund_id \in DOMAIN fund
    /\ fund[last'.source_fund_id].master_fund_id = m
    /\ \A f \in DOMAIN fund' : fund'[f].master_fund_id # m

\* C24: in every state reached by create_fund, copy_budgets_from_previous_month,
\* combine_fund_masters, unlink_fund_and_split_master, discontinue_fund_master
\* and add_fund_to_orphaned_master, every Fund row references an existing
\* FundMaster; a FundMaster is deleted only by combine_fund_masters, only as
\* the source master, and only once no Fund row references it.
C24_FundsReferenceExistingMasters ==
    /\ [] FundsReferenceMasters(fund, fund_masters)
    /\ [][\A m \in DOMAIN fund_masters \ DOMAIN fund_masters' :
              DeletedBySourceCombine(m)]_vars

\* a combine has deleted a master that had two funds, both now on the target
C24_Witness ==
    /\ last.op = "combine_fund_masters"
    /\ last.ok
    /\ last.funds_combined = 2
    /\ last.deleted_master_id \notin DOMAIN fund_masters
    /\ \E f \in DOMAIN fund : fund[f].master_fund_id = last.target_master_id

-----------------------------------------------------------------------------
(* Specification SpecOverdraw: runs of apply_fund_increments in both modes *)

\* user 1: an income "Pay" in P1 (3.00 received) and in P2 (11.00 received),
\* a fund "Old" of P1 holding 1.00, a disabled fund "Off" of P2, an expense
\* "Rent" (2.00 spent) and a flexible expense "Food" (1.00 spent) of P2;
\* user 2: a fund "Loan" of P2
InitOverdraw ==
    /\ budget = << BudgetRow(1, "Pay", P1, TRUE), BudgetRow(1, "Pay", P2, TRUE),
                   BudgetRow(1, "Old", P1, TRUE), BudgetRow(2, "Loan", P2, TRUE),
                   BudgetRow(1, "Off", P2, FALSE), BudgetRow(1, "Rent", P2, TRUE),
                   BudgetRow(1, "Food", P2, TRUE) >>
    /\ income = (1 :> IncomeRow(TRUE, 0)) @@ (2 :> IncomeRow(TRUE, 0))
    /\ expense = (6 :> ExpenseRow(TRUE, FALSE, 2)) @@ (7 :> ExpenseRow(FALSE, TRUE, 1))
    /\ fund = (3 :> FundRow(1, 8, <<>>, 1, 1)) @@ (4 :> FundRow(1, 3, <<>>, 0, 2))
              @@ (5 :> FundRow(1, 5, <<>>, 0, 3))
    /\ fund_masters = (1 :> MasterRow("Old", 1)) @@ (2 :> MasterRow("Loan", 0))
                      @@ (3 :> MasterRow("Off", 0))
    /\ next_master_id = 4
    /\ txn = << [TxnRow(3, MonthEnd(P1.year, P1.month)) EXCEPT !.budget_id = 1],
                [TxnRow(11, MonthStart(P2.year, P2.month)) EXCEPT !.budget_id = 2],
                [TxnRow(0 - 2, MonthStart(P2.year, P2.month)) EXCEPT !.budget_id = 6],
                [TxnRow(0 - 1, MonthEnd(P2.year, P2.month)) EXCEPT !.budget_id = 7] >>
    /\ line_item = EmptyTable
    /\ next_line_item_id = 1
    /\ runs = 0
    /\ sessions = NoSessions
    /\ last = [op |-> "none", ok |-> TRUE]

\* the funds offered for creation in month P2: name, priority, increment,
\* max and master (0: a new one; 1: the master of the fund "Old")
OverdrawInputs ==
    { <<"Car", 2, 8, <<>>, 0>>, <<"Old", 1, 8, <<>>, 1>>,
      <<"Bike", 1, 5, <<3>>, 0>>, <<"Gift", 1, 0, <<>>, 0>> }

CreateOverdrawFund ==
    /\ Len(budget) < MaxBudgets + 5
    /\ \E input \in OverdrawInputs :
          create_fund(1, input[1], <<input[2]>>, input[3], 0, input[4],
                      P2.month, P2.year, input[5])

DisableOverdrawFund ==
    \E b \in 8 .. Len(budget) :
        /\ budget[b].enable
        /\ set_budget_flags(b, FALSE, FALSE)

ApplyOverdraw ==
    /\ runs < MaxRuns
    /\ \E safe_mode \in BOOLEAN :
          apply_fund_increments(1, P2.month, P2.year, safe_mode)

NextOverdraw ==
    \/ CreateOverdrawFund
    \/ DisableOverdrawFund
    \/ ApplyOverdraw

SpecOverdraw == InitOverdraw /\ [][NextOverdraw]_vars

\* the full amount of the fund considered at pass i: its increment, cut to
\* the room its max leaves above the recomputed balance of its master
FullAmount(steps, i) ==
    LET f == steps[i].fund_id
        B == RecomputedBalance(Store, fund[f].master_fund_id)
             + GivenBefore(steps, i, fund[f].master_fund_id)
    IN  IF fund[f].max = <<>> THEN fund[f].increment
        ELSE Min(fund[f].increment, fund[f].max[1] - B)

\* the fund considered at pass i is at its max
AtMax(steps, i) ==
    LET f == steps[i].fund_id
        B == RecomputedBalance(Store, fund[f].master_fund_id)
             + GivenBefore(steps, i, fund[f].master_fund_id)
    IN  fund[f].max # <<>> /\ fund[f].max[1] - B <= 0

\* C25: with safe_mode off, every enabled fund with a nonzero increment that
\* is not at its max receives its full min(increment, room), whatever balance
\* remains; would_go_negative is true exactly when balance_after < 0, in both
\* modes; from balance_before 10.00 with two uncapped funds of increment
\* 8.00, the run with safe_mode off adds 8.00 to each, balance_after is
\* -6.00 and would_go_negative is true.
C25_UnsafeModeGivesFullAmounts ==
    [][ ApplyDone' =>
        LET steps == last'.steps
            considered == EnabledFunds(last'.user_id, last'.year, last'.month)
        IN  /\ last'.would_go_negative <=> last'.balance_after < 0
            /\ ~last'.safe_mode =>
                 \A f \in considered :
                    \E i \in DOMAIN steps :
                       /\ steps[i].fund_id = f
                       /\ (fund[f].increment # 0 /\ ~AtMax(steps, i)) =>
                             /\ AppliedFor(last', f, FullAmount(steps, i))
                             /\ fund'[f].month_amount
                                   = fund[f].month_amount + FullAmount(steps, i)
            /\ (/\ ~last'.safe_mode
                /\ last'.balance_before = 10
                /\ Cardinality(considered) = 2
                /\ \A f \in considered :
                      fund[f].increment = 8 /\ fund[f].max = <<>>) =>
                 /\ \A f \in considered :
                       /\ AppliedFor(last', f, 8)
                       /\ fund'[f].month_amount = fund[f].month_amount + 8
                 /\ last'.balance_after = 0 - 6
                 /\ last'.would_go_negative
      ]_vars

\* the run of the claim: safe_mode off, balance_before 10.00, two uncapped
\* funds of increment 8.00 each given 8.00, balance_after -6.00
C25_Witness ==
    /\ ApplyDone
    /\ ~last.safe_mode
    /\ last.balance_before = 10
    /\ Len(last.applied_funds) = 2
    /\ Len(last.skipped_funds) = 0
    /\ \A i \in DOMAIN last.applied_funds :
          /\ last.applied_funds[i].amount_added = 8
          /\ fund[last.applied_funds[i].fund_id].max = <<>>
          /\ fund[last.applied_funds[i].fund_id].increment = 8
    /\ last.balance_after = 0 - 6
    /\ last.would_go_negative

\* the sum of amount_added over the entries of applied_funds
RECURSIVE SumAdded(_, _)
SumAdded(applied, n) ==
    IF n = 0 THEN 0 ELSE SumAdded(applied, n - 1) + applied[n].amount_added

\* what the run added to the funds of master m
RECURSIVE AddedToMaster(_, _, _)
AddedToMaster(applied, n, m) ==
    IF n = 0 THEN 0
    ELSE AddedToMaster(applied, n - 1, m)
         + (IF fund[applied[n].fund_id].master_fund_id = m
            THEN applied[n].amount_added ELSE 0)

\* C26: in every run of apply_fund_increments, total_applied is the sum of
\* amount_added over applied_funds and balance_after is balance_before minus
\* total_applied; the month_amount of each applied fund and the stored
\* total_amount of its master grow by exactly the amount added; the
\* month_amount of skipped funds, disabled funds and funds of other months
\* or other users does not change.
C26_RunAccountsForEveryAmount ==
    [][ ApplyDone' =>
        LET applied == last'.applied_funds
            applied_ids == {applied[i].fund_id : i \in DOMAIN applied}
        IN  /\ last'.total_applied = SumAdded(applied, Len(applied))
            /\ last'.balance_after = last'.balance_before - last'.total_applied
            /\ Cardinality(applied_ids) = Len(applied)
            /\ DOMAIN fund' = DOMAIN fund
            /\ DOMAIN fund_masters' = DOMAIN fund_masters
            /\ \A i \in DOMAIN applied :
                  LET f == applied[i].fund_id
                  IN  /\ f \in EnabledFunds(last'.user_id, last'.year, last'.month)
                      /\ fund'[f].month_amount
                            = fund[f].month_amount + applied[i].amount_added
            /\ \A m \in DOMAIN fund_masters :
                  fund_masters'[m].total_amount
                     = fund_masters[m].total_amount
                       + AddedToMaster(applied, Len(applied), m)
            /\ \A f \in DOMAIN fund \ applied_ids :
                  fund'[f].month_amount = fund[f].month_amount
      ]_vars

\* a run that gave amounts to two funds of one master and left alone the
\* disabled fund of the month, the fund of the other month and the fund of
\* the other user
C26_Witness ==
    /\ ApplyDone
    /\ Len(last.applied_funds) = 2
    /\ last.safe_mode
    /\ last.balance_after = 0
    /\ \E i, j \in DOMAIN last.applied_funds :
          /\ i # j
          /\ fund[last.applied_funds[i].fund_id].master_fund_id
                = fund[last.applied_funds[j].fund_id].master_fund_id
    /\ ~budget[5].enable
    /\ fund[5].month_amount = 0
    /\ fund[3].month_amount = 1
    /\ fund[4].month_amount = 0

\* the transaction sums of the incomes, expenses and flexible expenses of a
\* user's month in store s, taken from the tables
MonthTransactionSums(s, user_id, p) ==
    LET sums == get_all_budget_sums_with_line_items(s, p.month, p.year)
        rows == BudgetsOf(s, user_id, p.month, p.year)
                   \cap (DOMAIN s.income \cup DOMAIN s.expense)
    IN  SumOver(rows, [b \in DOMAIN s.budget |-> DictGet(sums, b, 0)])

\* the carryover of every income, expense, flexible and fund row of the month
MonthCarryover(s, user_id, p) ==
    LET carryover == get_carryover_for_budgets(s, user_id, p.month, p.year)
        rows == BudgetsOf(s, user_id, p.month, p.year)
                   \cap (DOMAIN s.income \cup DOMAIN s.expense \cup DOMAIN s.fund)
    IN  SumOver(rows, [b \in DOMAIN s.budget |->
                          DictGet(carryover, s.budget[b].name, 0)])

\* the month_amount of all the funds of the month, enabled or not
MonthFundAmounts(s, user_id, p) ==
    LET rows == BudgetsOf(s, user_id, p.month, p.year) \cap DOMAIN s.fund
    IN  SumOver(rows, [b \in DOMAIN s.budget |->
                          IF b \in DOMAIN s.fund THEN s.fund[b].month_amount ELSE 0])

\* C27: balance_before of a run is the income transaction sums plus the
\* expense transaction sums plus the flexible transaction sums plus the
\* carryover over all income, expense, flexible and fund rows of the month,
\* minus the month_amount of all the month's funds, enabled or not, as they
\* are before the run allocates anything.
C27_BalanceBeforeFormula ==
    [][ ApplyDone' =>
        LET p == [month |-> last'.month, year |-> last'.year]
        IN  last'.balance_before
               = MonthTransactionSums(Store, last'.user_id, p)
                 + MonthCarryover(Store, last'.user_id, p)
                 - MonthFundAmounts(Store, last'.user_id, p)
      ]_vars

\* a second run, after the first gave 8.00 to a fund that was then disabled:
\* the balance it starts from counts the disabled fund's 8.00, the carryover
\* and the three kinds of transaction sums, and the run allocates again
C27_Witness ==
    /\ ApplyDone
    /\ runs = 2
    /\ \E f \in DOMAIN fund :
          /\ budget[f].user_id = 1 /\ budget[f].month = P2.month
          /\ ~budget[f].enable
          /\ fund[f].month_amount = 8
    /\ MonthCarryover(Store, 1, P2) # 0
    /\ last.balance_before = 3
    /\ last.total_applied > 0

-----------------------------------------------------------------------------
(* Specification SpecSplit: breakdowns of a transaction, one after another *)

\* the breakdowns offered for a transaction of amount a: exact in one item,
\* exact over two budgets, two cents short (rejected)
SplitItems(a) ==
    { <<[amount |-> a, budget_id |-> 1]>>,
      <<[amount |-> a - 4, budget_id |-> 1], [amount |-> 4, budget_id |-> 4]>>,
      <<[amount |-> a - 2, budget_id |-> 1]>> }

SplitTransaction ==
    \E t \in DOMAIN txn : \E items \in SplitItems(txn[t].amount) :
        /\ next_line_item_id + Len(items) - 1 <= MaxLineItems + 1
        /\ create_transaction_breakdown(t, items)

NextSplit ==
    \/ SplitTransaction
    \/ AssignTransaction
    \/ DeleteLineItem

SpecSplit == InitAgg /\ [][NextSplit]_vars

\* the sum of all the line items persisted for a transaction
LineItemsTotal(transaction_id) ==
    SumOver({l \in DOMAIN line_item :
                line_item[l].parent_transaction_id = transaction_id},
            [l \in DOMAIN line_item |-> line_item[l].amount])

\* C28: immediately after every successful create_transaction_breakdown,
\* whether or not the transaction was already split, the sum of all line
\* items persisted for that transaction equals the transaction's amount
\* within 0.01.
C28_LineItemsSumToAmount ==
    (last.op = "create_transaction_breakdown" /\ last.ok) =>
        Abs(LineItemsTotal(last.transaction_id) - txn[last.transaction_id].amount)
            <= LINE_ITEM_AMOUNT_TOLERANCE

-----------------------------------------------------------------------------
(* Withdrawing from a master and resuming it (SpecVariant) *)

OrphanOpDone ==
    last.op \in {"discontinue_fund_master", "add_fund_to_orphaned_master"}

\* C29: discontinue_fund_master and add_fund_to_orphaned_master each fail
\* with a domain error, creating no Budget or Fund row and leaving the
\* master's stored total unchanged, when the master does not exist or a Fund
\* row already exists on that master for the requested month and year;
\* applied one after another they never create a second Fund row for a
\* (master, month, year).
C29_OneFundPerMasterAndMonth ==
    [][ OrphanOpDone' =>
        LET m == last'.master_fund_id
            existing == funds_of_master_in_month(Store, m, last'.month, last'.year)
        IN  /\ m \notin DOMAIN fund_masters =>
                  /\ ~last'.ok /\ last'.error = "not found"
                  /\ budget' = budget /\ fund' = fund
                  /\ fund_masters' = fund_masters
            /\ (m \in DOMAIN fund_masters /\ existing # {}) =>
                  /\ ~last'.ok /\ last'.error = "Fund already exists"
                  /\ budget' = budget /\ fund' = fund
                  /\ fund_masters' = fund_masters
            /\ \A master \in DOMAIN fund_masters', p \in Periods :
                  Cardinality(funds_of_master_in_month(Store', master, p.month, p.year))
                     <= Max(1, Cardinality(funds_of_master_in_month(
                                               Store, master, p.month, p.year)))
      ]_vars

\* the master was withdrawn from in P2, which gave it the withdrawal fund of
\* priority 999, and the request to resume it in the same month was refused
C29_Witness ==
    /\ OrphanOpDone
    /\ ~last.ok
    /\ last.error = "Fund already exists"
    /\ last.op = "add_fund_to_orphaned_master"
    /\ last.month = P2.month
    /\ \E f \in DOMAIN fund :
          /\ funds_of_master_in_month(Store, last.master_fund_id,
                                      P2.month, P2.year) = {f}
          /\ fund[f].priority = 999

-----------------------------------------------------------------------------
(* The refusals of combine_fund_masters (SpecRef) *)

\* the step was refused with the message, and no table changed
RefusedWith(message) ==
    /\ ~last'.ok
    /\ last'.error = message
    /\ UNCHANGED tables

\* C30: combine_fund_masters fails with a domain error and changes nothing
\* (no Fund row repointed, no master deleted, no stored total changed) when
\* the source fund does not exist, when the target fund does not exist, or
\* when both funds already reference the same master, source_fund_id equal
\* to target_fund_id included.
C30_CombineRefusals ==
    [][ last'.op = "combine_fund_masters" =>
        LET source == last'.source_fund_id
            target == last'.target_fund_id
        IN  /\ source \notin DOMAIN fund => RefusedWith("Source fund not found")
            /\ (source \in DOMAIN fund /\ target \notin DOMAIN fund) =>
                  RefusedWith("Target fund not found")
            /\ (/\ source \in DOMAIN fund
                /\ target \in DOMAIN fund
                /\ fund[source].master_fund_id = fund[target].master_fund_id) =>
                  RefusedWith("Funds are already in the same master fund family")
      ]_vars

\* two different funds of one master were offered, and refused, in a store
\* that holds another master as well
C30_Witness ==
    /\ last.op = "combine_fund_masters"
    /\ ~last.ok
    /\ last.error = "Funds are already in the same master fund family"
    /\ last.source_fund_id # last.target_fund_id
    /\ fund[last.source_fund_id].master_fund_id
          = fund[last.target_fund_id].master_fund_id
    /\ Cardinality(DOMAIN fund_masters) >= 2

-----------------------------------------------------------------------------
(* Resuming a master (SpecVariant) *)

AddFundDone == last.op = "add_fund_to_orphaned_master" /\ last.ok

\* C31: a successful add_fund_to_orphaned_master(master, month, year,
\* priority, increment, max) creates exactly one new Budget row and one new
\* Fund row on that master for that month, with month_amount 0 and the given
\* priority, increment and max, and leaves the master's recomputed balance,
\* its stored total and every other row unchanged.
C31_AddFundCreatesOneEmptyFund ==
    [][ AddFundDone' =>
        LET m == last'.master_fund_id
            new_id == Len(budget) + 1
        IN  /\ Len(budget') = Len(budget) + 1
            /\ \A b \in DOMAIN budget : budget'[b] = budget[b]
            /\ budget'[new_id].user_id = last'.user_id
            /\ budget'[new_id].month = last'.month
            /\ budget'[new_id].year = last'.year
            /\ DOMAIN fund' = DOMAIN fund \cup {new_id}
            /\ new_id \notin DOMAIN fund
            /\ \A f \in DOMAIN fund : fund'[f] = fund[f]
            /\ fund'[new_id].master_fund_id = m
            /\ fund'[new_id].month_amount = 0
            /\ fund'[new_id].priority = last'.priority
            /\ fund'[new_id].increment = last'.increment
            /\ fund'[new_id].max = last'.max_amount
            /\ funds_of_master_in_month(Store', m, last'.month, last'.year) = {new_id}
            /\ fund_masters' = fund_masters
            /\ RecomputedBalance(Store', m) = RecomputedBalance(Store, m)
            /\ UNCHANGED <<income, expense, txn, line_item>>
      ]_vars

\* a master with a fund of P1 holding 3.00 was given a fund for P2, which
\* took the master's name and starts at 0.00
C31_Witness ==
    /\ AddFundDone
    /\ last.month = P2.month
    /\ RecomputedBalance(Store, last.master_fund_id) = 3
    /\ \E f \in DOMAIN fund :
          /\ funds_of_master_in_month(Store, last.master_fund_id,
                                      P2.month, P2.year) = {f}
          /\ fund[f].month_amount = 0
          /\ fund[f].increment = 4
          /\ budget[f].name = fund_masters[last.master_fund_id].name

-----------------------------------------------------------------------------
(* The month copy, statement by statement (copy.py), and failing requests *)

Copying(p) == sessions[p].op = "copy_budgets_from_previous_month"

\* lines 52-105: the target check and the join over the previous month, both
\* on committed rows; the rows of the join are kept by the request
begin_copy_budgets_from_previous_month(p, user_id, target_month, target_year) ==
    /\ sessions[p].op = "idle"
    /\ LET prev == resolve_source(target_month, target_year, <<>>, <<>>)
           target_rows == BudgetsOf(Store, user_id, target_month, target_year)
           prev_budgets == BudgetsOf(Store, user_id, prev.month, prev.year)
           error == copy_check(target_rows # {}, prev_budgets # {})
           joined(id) ==
               [name |-> budget[id].name, enable |-> budget[id].enable,
                deleted |-> budget[id].deleted,
                income_id |-> IF id \in DOMAIN income THEN id ELSE 0,
                expense_id |-> IF id \in DOMAIN expense THEN id ELSE 0,
                fund_id |-> IF id \in DOMAIN fund THEN id ELSE 0]
       IN  IF error # "none"
           THEN sessions' = [sessions EXCEPT ![p] =
                    [op |-> "closed",
                     request |-> "copy_budgets_from_previous_month",
                     ok |-> FALSE, error |-> error]]
           ELSE \E order \in Orders(prev_budgets) :
                    sessions' = [sessions EXCEPT ![p] =
                        [op |-> "copy_budgets_from_previous_month",
                         user_id |-> user_id,
                         target_month |-> target_month,
                         target_year |-> target_year,
                         prev_budgets |-> [k \in DOMAIN order |-> joined(order[k])],
                         i |-> 1,
                         inserted |-> <<>>]]
    /\ UNCHANGED <<tables, runs, last>>

\* the rows one pass of the loop inserts: the Budget row and its extension
copied_row(q, row) ==
    [budget |-> [user_id |-> q.user_id, name |-> row.name,
                 enable |-> row.enable, deleted |-> row.deleted,
                 month |-> q.target_month, year |-> q.target_year],
     kind |-> IF row.income_id # 0 THEN "income"
              ELSE IF row.expense_id # 0 THEN "expense"
              ELSE IF row.fund_id # 0 THEN "fund"
              ELSE "none",
     extension |-> IF row.income_id # 0 THEN income[row.income_id]
                   ELSE IF row.expense_id # 0 THEN expense[row.expense_id]
                   ELSE IF row.fund_id # 0 THEN copied_fund(fund[row.fund_id])
                   ELSE <<>>]

\* the tables after the rows a request inserted are made visible
with_inserted(s, inserted) ==
    LET base == Len(s.budget)
        n == Len(inserted)
        new_ids == (base + 1) .. (base + n)
        of_kind(kind) == {id \in new_ids : inserted[id - base].kind = kind}
        added(table, kind) ==
            [id \in DOMAIN table \cup of_kind(kind) |->
                IF id \in DOMAIN table THEN table[id]
                ELSE inserted[id - base].extension]
    IN  [s EXCEPT
            !.budget = [id \in 1 .. (base + n) |->
                           IF id <= base THEN s.budget[id]
                           ELSE inserted[id - base].budget],
            !.income = added(s.income, "income"),
            !.expense = added(s.expense, "expense"),
            !.fund = added(s.fund, "fund")]

\* a loop that committed after every pass
copy_row_committing(p) ==
    /\ Copying(p)
    /\ sessions[p].i <= Len(sessions[p].prev_budgets)
    /\ LET q == sessions[p]
           row == copied_row(q, q.prev_budgets[q.i])
           after == with_inserted(Store, <<row>>)
       IN  /\ sessions' = [sessions EXCEPT ![p].i = q.i + 1]
           /\ budget' = after.budget
           /\ income' = after.income
           /\ expense' = after.expense
           /\ fund' = after.fund
    /\ UNCHANGED <<fund_masters, next_master_id, txn, line_item,
                   next_line_item_id, runs, last>>

\* lines 107-181: one pass of the loop; the INSERTs stay in the open
\* transaction of the request
copy_row(p) ==
    /\ Copying(p)
    /\ sessions[p].i <= Len(sessions[p].prev_budgets)
    /\ LET q == sessions[p]
       IN  sessions' = [sessions EXCEPT
               ![p].inserted = Append(q.inserted,
                                      copied_row(q, q.prev_budgets[q.i])),
               ![p].i = q.i + 1]
    /\ UNCHANGED <<tables, runs, last>>

\* lines 183-184: the one commit of the request
commit_copy_budgets_from_previous_month(p) ==
    /\ Copying(p)
    /\ sessions[p].i > Len(sessions[p].prev_budgets)
    /\ LET q == sessions[p]
           after == with_inserted(Store, q.inserted)
       IN  /\ budget' = after.budget
           /\ income' = after.income
           /\ expense' = after.expense
           /\ fund' = after.fund
           /\ sessions' = [sessions EXCEPT ![p] =
                  [op |-> "closed",
                   request |-> "copy_budgets_from_previous_month",
                   ok |-> TRUE, copied |-> Len(q.inserted)]]
           /\ last' = [op |-> "copy_budgets_from_previous_month", ok |-> TRUE,
                       user_id |-> q.user_id,
                       target_month |-> q.target_month,
                       target_year |-> q.target_year,
                       copied |-> Len(q.inserted)]
    /\ UNCHANGED <<fund_masters, next_master_id, txn, line_item,
                   next_line_item_id, runs>>

\* an exception in a request that has not committed (a statement that fails,
\* a lost connection): leaving `async with AsyncSession(engine)` closes the
\* session, and its open transaction is rolled back
rollback(p) ==
    /\ Applying(p) \/ Copying(p)
    /\ sessions' = [sessions EXCEPT ![p] =
           [op |-> "failed", request |-> sessions[p].op,
            discarded |-> IF Applying(p)
                          THEN Cardinality(DOMAIN sessions[p].written_funds)
                          ELSE Len(sessions[p].inserted)]]
    /\ UNCHANGED <<tables, runs, last>>

-----------------------------------------------------------------------------
(* Specification SpecAtomic: allocation runs and month copies of user 1, *)
(* two at once, any of which may fail before its commit                  *)

NextAtomic ==
    \/ BeginApply
    \/ LoadFund
    \/ FlushFund
    \/ CommitApply
    \/ \E p \in Sessions :
          begin_copy_budgets_from_previous_month(p, 1, P2.month, P2.year)
    \/ \E p \in Sessions : copy_row(p)
    \/ \E p \in Sessions : commit_copy_budgets_from_previous_month(p)
    \/ \E p \in Sessions : rollback(p)

SpecAtomic == InitConc /\ [][NextAtomic]_vars

InFlight(p) == Applying(p) \/ Copying(p)

Commits(p) == InFlight(p) /\ sessions'[p].op = "closed"

Fails(p) == InFlight(p) /\ sessions'[p].op = "failed"

\* C32: apply_fund_increments and copy_budgets_from_previous_month commit all
\* their writes together: the stored rows change only in the step that
\* commits a request, that step stores every write of the request (each
\* month_amount and total_amount the run set; one Budget row and its
\* extension per copied budget), and a request that fails before its commit
\* leaves every stored row as it was
C32_WritesCommitTogether ==
    [][ /\ (tables' # tables) => \E p \in Sessions : Commits(p)
        /\ \A p \in Sessions : Fails(p) => tables' = tables
        /\ \A p \in Sessions :
              Commits(p) /\ Applying(p) =>
                /\ \A f \in DOMAIN sessions[p].written_funds :
                      fund'[f].month_amount = sessions[p].written_funds[f]
                /\ \A m \in DOMAIN sessions[p].written_masters :
                      fund_masters'[m].total_amount =
                          sessions[p].written_masters[m]
                /\ budget' = budget
        /\ \A p \in Sessions :
              Commits(p) /\ Copying(p) =>
                /\ Len(budget') = Len(budget) + Len(sessions[p].prev_budgets)
                /\ Cardinality(DOMAIN income' \cup DOMAIN expense' \cup DOMAIN fund')
                      = Cardinality(DOMAIN income \cup DOMAIN expense \cup DOMAIN fund)
                          + Len(sessions[p].prev_budgets)
                /\ fund_masters' = fund_masters
                /\ \A f \in DOMAIN fund : fund'[f] = fund[f]
      ]_vars

\* a run that had raised two funds and a copy that had inserted three budgets
\* both failed, and the stored rows are those of the start
C32_Witness ==
    /\ \E p \in Sessions :
          /\ sessions[p].op = "failed"
          /\ sessions[p].request = "apply_fund_increments"
          /\ sessions[p].discarded = 2
    /\ \E p \in Sessions :
          /\ sessions[p].op = "failed"
          /\ sessions[p].request = "copy_budgets_from_previous_month"
          /\ sessions[p].discarded = 3
    /\ Store = ConcStore

-----------------------------------------------------------------------------
(* Two month copies at once (SpecAtomic) *)

CopySucceeded(p) ==
    /\ sessions[p].op = "closed"
    /\ sessions[p].request = "copy_budgets_from_previous_month"
    /\ sessions[p].ok

\* C34: two concurrent copy_budgets_from_previous_month requests of one user
\* into the same empty target month do not both succeed, and the target
\* month never holds more budgets than the source month has
C34_OneCopyPerTargetMonth ==
    /\ ~(\A p \in Sessions : CopySucceeded(p))
    /\ Cardinality(BudgetsOf(Store, 1, P2.month, P2.year))
          <= Cardinality(BudgetsOf(Store, 1, P1.month, P1.year))

-----------------------------------------------------------------------------
(* discontinue_fund_master, statement by statement (master_fund_orphaned.py) *)

Discontinuing(p) == sessions[p].op = "discontinue_fund_master"

\* lines 127-162: SELECT FundMaster, the existing-fund check and the name of
\* the last fund, all on committed rows; `master` keeps the total it read
begin_discontinue_fund_master(p, master_fund_id, month, year, user_id) ==
    /\ sessions[p].op \in {"idle", "closed"}
    /\ LET error == discontinue_check(Store, master_fund_id, month, year)
       IN  IF error # "none"
           THEN sessions' = [sessions EXCEPT ![p] =
                    [op |-> "closed", request |-> "discontinue_fund_master",
                     ok |-> FALSE, error |-> error]]
           ELSE \E last_fund \in IF last_funds(Store, master_fund_id) = {} THEN {0}
                                 ELSE last_funds(Store, master_fund_id) :
                    sessions' = [sessions EXCEPT ![p] =
                        [op |-> "discontinue_fund_master",
                         master_fund_id |-> master_fund_id,
                         month |-> month, year |-> year, user_id |-> user_id,
                         total_amount |-> fund_masters[master_fund_id].total_amount,
                         last_fund_name |-> IF last_fund = 0 THEN "Discontinued Fund"
                                            ELSE budget[last_fund].name,
                         budget_id |-> 0]]
    /\ UNCHANGED <<tables, runs, last>>

\* lines 164-171: create_budget inserts the Budget row and commits
create_budget_for_discontinue(p) ==
    /\ Discontinuing(p)
    /\ sessions[p].budget_id = 0
    /\ Len(budget) <= MaxBudgets
    /\ LET q == sessions[p]
       IN  /\ budget' = create_budget(q.user_id, q.last_fund_name, q.month, q.year)
           /\ sessions' = [sessions EXCEPT ![p].budget_id = Len(budget) + 1]
    /\ UNCHANGED <<income, expense, fund, fund_masters, next_master_id, txn,
                   line_item, next_line_item_id, runs, last>>

\* lines 173-197: the Fund row with the withdrawal, the master set to zero,
\* the commit and the response
\* expire_on_commit: master.total_amount cannot be reloaded after the commit
\* of create_budget, and the request fails with the Budget row alone
commit_discontinue_fund_master(p, expire_on_commit) ==
    /\ Discontinuing(p)
    /\ sessions[p].budget_id # 0
    /\ LET q == sessions[p]
           withdrawal == 0 - q.total_amount
       IN  IF expire_on_commit
           THEN /\ UNCHANGED <<fund, fund_masters, last>>
                /\ sessions' = [sessions EXCEPT ![p] =
                       [op |-> "closed", request |-> "discontinue_fund_master",
                        ok |-> FALSE, error |-> "MissingGreenlet"]]
           ELSE /\ fund' = Put(fund, q.budget_id,
                               FundRow(999, 0, <<>>, withdrawal, q.master_fund_id))
                /\ fund_masters' =
                      [fund_masters EXCEPT ![q.master_fund_id].total_amount = 0]
                /\ sessions' = [sessions EXCEPT ![p] =
                       [op |-> "closed", request |-> "discontinue_fund_master",
                        ok |-> TRUE, withdrawal_amount |-> withdrawal]]
                /\ last' = [op |-> "discontinue_fund_master", ok |-> TRUE,
                            master_fund_id |-> q.master_fund_id,
                            month |-> q.month, year |-> q.year,
                            user_id |-> q.user_id,
                            master_id |-> q.master_fund_id,
                            budget_id |-> q.budget_id,
                            withdrawal_amount |-> withdrawal]
    /\ UNCHANGED <<budget, income, expense, next_master_id, txn, line_item,
                   next_line_item_id, runs>>

-----------------------------------------------------------------------------
(* Specification SpecWithdraw: allocation runs of month P1, then requests *)
(* to discontinue the master of "Car" in month P2, two at once            *)

NextWithdraw ==
    \/ BeginApply
    \/ LoadFund
    \/ FlushFund
    \/ CommitApply
    \/ \E p \in Sessions :
          begin_discontinue_fund_master(p, 1, P2.month, P2.year, 1)
    \/ \E p \in Sessions : create_budget_for_discontinue(p)
    \/ \E p \in Sessions, expire_on_commit \in BOOLEAN :
          commit_discontinue_fund_master(p, expire_on_commit)

SpecWithdraw == InitConc /\ [][NextWithdraw]_vars

\* C33: two concurrent discontinue_fund_master requests for one master and
\* one month do not both succeed: the master has at most one Fund row in
\* that month, and its balance is withdrawn at most once, so that it is
\* never brought below zero by the withdrawals
C33_OneWithdrawalPerMasterAndMonth ==
    \A m \in DOMAIN fund_masters :
        /\ Cardinality(funds_of_master_in_month(Store, m, P2.month, P2.year)) <= 1
        /\ RecomputedBalance(Store, m) >= 0

-----------------------------------------------------------------------------
(* max as a cap on the master balance (SpecFund) *)

\* every enabled fund of the run's month that has a max finds the recomputed
\* balance of its master at or below that max
WithinMax(s, run) ==
    \A f \in DOMAIN s.fund \cap DOMAIN s.budget :
        ( /\ s.budget[f].user_id = run.user_id
          /\ s.budget[f].month = run.month
          /\ s.budget[f].year = run.year
          /\ s.budget[f].enable
          /\ s.fund[f].max # <<>> )
        => RecomputedBalance(s, s.fund[f].master_fund_id) <= s.fund[f].max[1]

\* C35: a run of apply_fund_increments respects max as a cap on the master
\* balance: if before the run every enabled fund of the month with a max has
\* a master balance at or below its max, the same is true after the run,
\* also when several funds of the month share one master
C35_RunKeepsBalancesWithinMax ==
    [][ (ApplyDone' /\ last'.ok /\ WithinMax(Store, last'))
            => WithinMax(Store', last') ]_vars

-----------------------------------------------------------------------------
(* Specification SpecCache: the operations on masters, from a store with *)
(* one master whose total_amount is its balance and one where it is not  *)

\* user 1 in month P1: an income "Pay" that has received 10.00; a fund "Car"
\* holding 3.00 that has spent 1.00, alone on a master split off with
\* keep_amount 2.00; a fund "Trip" created with month_amount 1.00, whose
\* master was created with total_amount 0.00
InitCache ==
    /\ budget = << BudgetRow(1, "Pay", P1, TRUE), BudgetRow(1, "Car", P1, TRUE),
                   BudgetRow(1, "Trip", P1, TRUE) >>
    /\ income = (1 :> IncomeRow(TRUE, 10))
    /\ expense = EmptyTable
    /\ fund = (2 :> FundRow(1, 4, <<>>, 3, 1)) @@ (3 :> FundRow(2, 5, <<5>>, 1, 2))
    /\ fund_masters = (1 :> MasterRow("Car", 2)) @@ (2 :> MasterRow("Trip", 0))
    /\ next_master_id = 3
    /\ txn = (1 :> [TxnRow(10, MonthStart(P1.year, P1.month)) EXCEPT !.budget_id = 1])
             @@ (2 :> [TxnRow(-1, MonthEnd(P1.year, P1.month)) EXCEPT !.budget_id = 2])
    /\ line_item = EmptyTable
    /\ next_line_item_id = 1
    /\ runs = 0
    /\ sessions = NoSessions
    /\ last = [op |-> "none", ok |-> TRUE]

NextCache ==
    \/ /\ Len(budget) < MaxBudgets
       /\ \E master_fund_id \in 0 .. 2 :
             create_fund(1, "Bike", <<1>>, 2, 0, <<4>>, P1.month, P1.year,
                         master_fund_id)
    \/ /\ runs < MaxRuns - 1
       /\ \E safe_mode \in BOOLEAN :
             apply_fund_increments(1, P1.month, P1.year, safe_mode)
    \/ /\ Len(budget) < MaxBudgets
       /\ copy_budgets_from_previous_month(1, P2.month, P2.year, <<>>, <<>>)
    \/ \E pair \in {<<2, 3>>, <<3, 2>>, <<4, 2>>} :
          combine_fund_masters(pair[1], pair[2])
    \/ /\ Len(budget) <= MaxBudgets
       /\ \E master_fund_id \in 1 .. 2, expire_on_commit \in BOOLEAN :
             \/ discontinue_fund_master(master_fund_id, P2.month, P2.year, 1,
                                        expire_on_commit)
             \/ add_fund_to_orphaned_master(master_fund_id, P2.month, P2.year, 1,
                                            1, 4, <<>>, expire_on_commit)

SpecCache == InitCache /\ [][NextCache]_vars

\* the stored total of a master is its recomputed balance
CacheConsistent(s, m) == s.fund_masters[m].total_amount = RecomputedBalance(s, m)

\* the masters a step involved for master m: m itself where it existed, and
\* the master the step merged away
InvolvedWith(m) ==
    ({m} \cap DOMAIN fund_masters) \cup (DOMAIN fund_masters \ DOMAIN fund_masters')

\* C36: a successful create_fund with month_amount 0, apply_fund_increments,
\* copy_budgets_from_previous_month, combine_fund_masters,
\* discontinue_fund_master or add_fund_to_orphaned_master keeps the cache
\* consistent: a master whose total_amount equalled its recomputed balance
\* before the call (for a combine: both masters; for a new master: none to
\* require) has total_amount equal to its recomputed balance after the call
C36_CacheStaysConsistent ==
    [][ ( /\ last'.op \in {"create_fund", "apply_fund_increments",
                           "copy_budgets_from_previous_month",
                           "combine_fund_masters", "discontinue_fund_master",
                           "add_fund_to_orphaned_master"}
          /\ last'.ok )
        => \A m \in DOMAIN fund_masters' :
              (\A k \in InvolvedWith(m) : CacheConsistent(Store, k))
                  => CacheConsistent(Store', m)
      ]_vars

\* the master of "Car", stored at 2.00 with a recomputed balance of
\* 3.00 - 1.00, received 4.00 from a run, was merged with a new master and
\* was then withdrawn from: the withdrawal is -6.00 and both figures are 0
C36_Witness ==
    /\ last.op = "discontinue_fund_master"
    /\ last.ok
    /\ last.withdrawal_amount = -6
    /\ DOMAIN fund_masters = {2, last.master_fund_id}
    /\ CacheConsistent(Store, last.master_fund_id)
    /\ fund_masters[last.master_fund_id].total_amount = 0
    /\ ~CacheConsistent(Store, 2)

-----------------------------------------------------------------------------
(* Specification SpecRepoint: funds created on masters, combined and *)
(* unlinked, from the store of SpecCache                             *)

NextRepoint ==
    \/ /\ Len(budget) < MaxBudgets
       /\ \E master_fund_id \in 0 .. 2 :
             create_fund(1, "Bike", <<1>>, 2, 0, <<4>>, P1.month, P1.year,
                         master_fund_id)
    \/ \E pair \in {<<2, 3>>, <<3, 2>>, <<4, 2>>} :
          combine_fund_masters(pair[1], pair[2])
    \/ /\ next_master_id <= MaxBudgets
       /\ \E fund_id \in 2 .. 4, keep_amount \in {0, 2}, expire_on_commit \in BOOLEAN :
             unlink_fund_and_split_master(fund_id, keep_amount, expire_on_commit)

SpecRepoint == InitCache /\ [][NextRepoint]_vars

\* the recomputed balances of all masters together
TotalRecomputed(s) ==
    SumOver(DOMAIN s.fund_masters,
            [m \in DOMAIN s.fund_masters |-> RecomputedBalance(s, m)])

\* C37: combine_fund_masters and unlink_fund_and_split_master only re-point
\* Fund rows: no Fund row appears or disappears or changes its month_amount,
\* priority, increment or max, and no transaction or line item changes;
\* unlink re-points the named fund only, to a new master no other fund
\* references; so the recomputed balances of all masters add up to the same
\* sum before and after
C37_OnlyRepointsFunds ==
    [][ (last'.op \in {"combine_fund_masters", "unlink_fund_and_split_master"})
        => /\ DOMAIN fund' = DOMAIN fund
           /\ \A f \in DOMAIN fund :
                 fund'[f] = [fund[f] EXCEPT
                                !.master_fund_id = fund'[f].master_fund_id]
           /\ UNCHANGED <<budget, income, expense, txn, line_item>>
           /\ (last'.op = "unlink_fund_and_split_master") =>
                 \A f \in DOMAIN fund :
                    fund'[f].master_fund_id # fund[f].master_fund_id =>
                       /\ f = last'.fund_id
                       /\ fund'[f].master_fund_id \notin DOMAIN fund_masters
                       /\ fund'[f].master_fund_id \in DOMAIN fund_masters'
                       /\ \A g \in DOMAIN fund \ {f} :
                             fund'[g].master_fund_id # fund'[f].master_fund_id
           /\ TotalRecomputed(Store') = TotalRecomputed(Store)
      ]_vars

\* "Car", holding 3.00 with 1.00 spent, shared its master with another fund
\* and has been unlinked from it with keep_amount 2.00: it is alone on a new
\* master, the other fund stays on the old one, and the balances of all
\* masters still add up to 3.00
C37_Witness ==
    /\ last.op = "unlink_fund_and_split_master"
    /\ last.ok
    /\ last.fund_id = 2
    /\ last.keep_amount = 2
    /\ \E g \in DOMAIN fund \ {2} : fund[g].master_fund_id = last.old_master_id
    /\ \A g \in DOMAIN fund \ {2} : fund[g].master_fund_id # fund[2].master_fund_id
    /\ RecomputedBalance(Store, fund[2].master_fund_id) = 2
    /\ TotalRecomputed(Store) = 3

-----------------------------------------------------------------------------
(* Safe mode stops at the first fund it cannot pay in full (SpecFund) *)

\* the pass i of a run gave its fund less than min(increment, room)
LeftShort(steps, i) ==
    /\ ~AtMax(steps, i)
    /\ steps[i].amount < FullAmount(steps, i)

\* C38: in a safe-mode run over funds whose increments are all positive, at
\* most one fund receives an amount reduced by the safe-mode clamp, and
\* every fund considered after it receives nothing; no fund receives an
\* amount while a fund before it in (priority, id) order, with room below
\* its max, was left short of its min(increment, room)
C38_SafeModeStopsAtFirstShortfall ==
    [][ ( /\ ApplyDone'
          /\ last'.safe_mode
          /\ \A f \in EnabledFunds(last'.user_id, last'.year, last'.month) :
                fund[f].increment > 0 )
        => LET steps == last'.steps
               reduced == {i \in DOMAIN steps :
                              LeftShort(steps, i) /\ steps[i].amount > 0}
           IN  /\ Cardinality(reduced) <= 1
               /\ {steps[i].fund_id : i \in DOMAIN steps}
                     = EnabledFunds(last'.user_id, last'.year, last'.month)
               /\ \A i, j \in DOMAIN steps :
                     ( /\ ComesBefore(steps[i].fund_id, steps[j].fund_id)
                       /\ LeftShort(steps, i) )
                     => /\ steps[j].amount = 0
                        /\ fund'[steps[j].fund_id].month_amount
                              = fund[steps[j].fund_id].month_amount
      ]_vars

\* a safe-mode run over three funds with positive increments: the first is
\* paid in full, the second receives what is left, less than it had room
\* for, and the third is skipped for insufficient balance
C38_Witness ==
    /\ ApplyDone
    /\ last.safe_mode
    /\ Len(last.steps) = 3
    /\ \A i \in 1 .. 3 : fund[last.steps[i].fund_id].increment > 0
    /\ last.steps[1].amount = last.steps[1].wanted[1]
    /\ last.steps[2].amount > 0
    /\ last.steps[2].amount < last.steps[2].wanted[1]
    /\ last.steps[3].reason = "Insufficient balance (safe mode)"
    /\ last.balance_after = 0

=============================================================================
